---- MODULE Spec2Model ----
(***************************************************************************)
(* A model of the chess engine in src/classes (board.py, pieces.py,        *)
(* game.py) driven by the mouse handler of src/main.py.                    *)
(*                                                                         *)
(* Objects are modelled by identity: every piece object has an id, the     *)
(* grid holds ids (None is 0) and `pieces` holds the fields of each        *)
(* object.  A move dictionary is a sequence of entries in insertion order  *)
(* (Python dictionaries iterate in insertion order).  Wherever the source  *)
(* passes the Board object where the piece code subscripts a grid          *)
(* (Game.choose, Board.validate_moves, Board.update_board), the grid of    *)
(* that Board is what the model passes.                                    *)
(***************************************************************************)
EXTENDS Integers, Sequences, FiniteSets, TLC

ROWS == 8
COLS == 8
PLAYER_WHITE == "WHITE"
PLAYER_BLACK == "BLACK"
UNFINISHED == "UNFINISHED"
None == 0

\* Bound of the model: calls of Game.choose explored freely once the opening
\* of the game being played has been clicked through.
MaxClicks == 2

\* Bound of the model: calls of Game.reset in one run.
MaxResets == 1

VARIABLES
    board,        \* Board._board: board[row][col] is a piece id or None
    pieces,       \* the fields of every piece object, by id
    inventory,    \* Board._pieces: <<team, type>> -> count
    promoted,     \* Board._promoted_pawn: a piece id or None
    turn,         \* Game._turn
    chosen,       \* Game._chosen: a piece id or None
    valid_moves,  \* Game._valid_moves: a move dictionary
    game,         \* which opening of Games this run clicks through first
    clicks,       \* calls of Game.choose so far
    resets,       \* calls of Game.reset so far
    call,         \* the call of Game.choose that is running, step by step
    beat          \* flips with every step the interpreter makes inside a call

\* The program's state, and the state with the model's script and counter.
state == <<board, pieces, inventory, promoted, turn, chosen, valid_moves>>
vars == <<board, pieces, inventory, promoted, turn, chosen, valid_moves, game, clicks,
          resets, call, beat>>

RowRange == 0 .. (ROWS - 1)
ColRange == 0 .. (COLS - 1)

\* Board._kings: the two king objects in the order set_up_board appends them.
BlackKingId == 5
WhiteKingId == 29
Kings == <<BlackKingId, WhiteKingId>>

(***************************************************************************)
(* Construction                                                            *)
(***************************************************************************)
BackRankType(col) ==
    IF col = 0 \/ col = 7 THEN "ROOK"
    ELSE IF col = 1 \/ col = 6 THEN "KNIGHT"
    ELSE IF col = 2 \/ col = 5 THEN "BISHOP"
    ELSE IF col = 3 THEN "QUEEN"
    ELSE "KING"

\* The id of the object set_up_board constructs for square (row, col).
InitialId(row, col) ==
    IF row < 2 THEN row * 8 + col + 1
    ELSE IF row > 5 THEN 16 + (row - 6) * 8 + col + 1
    ELSE None

NewPiece(type, team, row, col) ==
    [type |-> type, team |-> team, row |-> row, col |-> col,
     first_turn |-> TRUE, en_passant |-> FALSE, check |-> FALSE]

SetUpBoard == [row \in RowRange |-> [col \in ColRange |-> InitialId(row, col)]]

SetUpObjects ==
    [id \in 1 .. 32 |->
        LET row == IF id <= 16 THEN (id - 1) \div 8 ELSE 6 + (id - 17) \div 8
            col == (id - 1) % 8
            team == IF row < 2 THEN PLAYER_BLACK ELSE PLAYER_WHITE
        IN  IF row = 0 \/ row = 7
            THEN NewPiece(BackRankType(col), team, row, col)
            ELSE NewPiece("PAWN", team, row, col)]

Types == {"PAWN", "ROOK", "KNIGHT", "BISHOP", "QUEEN", "KING"}

SetUpPieces ==
    [key \in {PLAYER_WHITE, PLAYER_BLACK} \X Types |->
        IF key[2] = "PAWN" THEN 8
        ELSE IF key[2] \in {"ROOK", "KNIGHT", "BISHOP"} THEN 2
        ELSE 1]

(***************************************************************************)
(* Move dictionaries: key (row, col), value None, a captured piece or a    *)
(* castle descriptor {'rook': rook, 'pos': (row, col)}.                    *)
(***************************************************************************)
Plain(row, col, captured) ==
    [row |-> row, col |-> col, captured |-> captured,
     castle |-> FALSE, rook |-> None, pos |-> <<0, 0>>]

CastleEntry(row, col, rook, pos) ==
    [row |-> row, col |-> col, captured |-> None,
     castle |-> TRUE, rook |-> rook, pos |-> pos]

HasKey(d, row, col) == \E i \in 1 .. Len(d) : d[i].row = row /\ d[i].col = col

Lookup(d, row, col) ==
    d[CHOOSE i \in 1 .. Len(d) : d[i].row = row /\ d[i].col = col]

Entries(moves) == {moves[i] : i \in 1 .. Len(moves)}

\* d[key] = value: an existing key keeps its place, a new key goes last.
DictSet(d, e) ==
    IF HasKey(d, e.row, e.col)
    THEN [i \in 1 .. Len(d) |->
            IF d[i].row = e.row /\ d[i].col = e.col THEN e ELSE d[i]]
    ELSE Append(d, e)

RECURSIVE DictUpdate(_, _)
DictUpdate(d, e) ==
    IF e = <<>> THEN d ELSE DictUpdate(DictSet(d, Head(e)), Tail(e))

\* del d[key] for every key of `keys`: the other entries, in their order.
DictDeleteKeys(d, keys) ==
    SelectSeq(d, LAMBDA e : <<e.row, e.col>> \notin keys)

(***************************************************************************)
(* Piece.move                                                              *)
(***************************************************************************)
\* A move that takes the square of any piece, of the mover's team too.
RECURSIVE MoveOntoOwn(_, _, _, _, _, _, _, _, _)
MoveOntoOwn(b, ps, row, col, team, vert, horiz, rec, first) ==
    IF row < 0 \/ row > 7 \/ col < 0 \/ col > 7 THEN <<>>
    ELSE LET pos == b[row][col] IN
         IF pos = None
         THEN IF rec \/ first
              THEN DictUpdate(<<Plain(row, col, None)>>,
                              MoveOntoOwn(b, ps, row + vert, col + horiz, team,
                                          vert, horiz, rec, FALSE))
              ELSE <<Plain(row, col, None)>>
         ELSE <<Plain(row, col, pos)>>

RECURSIVE Move(_, _, _, _, _, _, _, _, _)
Move(b, ps, row, col, team, vert, horiz, rec, first) ==
    IF row < 0 \/ row > 7 \/ col < 0 \/ col > 7 THEN <<>>
    ELSE LET pos == b[row][col] IN
         IF pos = None
         THEN IF rec \/ first
              THEN DictUpdate(<<Plain(row, col, None)>>,
                              Move(b, ps, row + vert, col + horiz, team,
                                   vert, horiz, rec, FALSE))
              ELSE <<Plain(row, col, None)>>
         ELSE IF ps[pos].team # team
         THEN <<Plain(row, col, pos)>>
         ELSE <<>>

\* moves.update(self.move(board, row + dr, col + dc, team, ...)) for the
\* offset <<dr, dc>> that run.next numbers in `offsets`, on the dictionary
\* the calls before it filled; rec tells a sliding walk (vert, horiz = dr,
\* dc and rec = True) from a single step (the defaults vert = horiz = 0,
\* rec = False).
MoveAlong(b, ps, row, col, team, offsets, rec, run) ==
    [moves |-> DictUpdate(run.moves,
                          Move(b, ps, row + offsets[run.next][1],
                               col + offsets[run.next][2], team,
                               IF rec THEN offsets[run.next][1] ELSE 0,
                               IF rec THEN offsets[run.next][2] ELSE 0,
                               rec, FALSE)),
     next  |-> run.next + 1]

\* The calls for the offsets of `offsets` from run.next on, in the order of
\* the source.
RECURSIVE MovesAlong(_, _, _, _, _, _, _, _)
MovesAlong(b, ps, row, col, team, offsets, rec, run) ==
    IF run.next > Len(offsets) THEN run.moves
    ELSE MovesAlong(b, ps, row, col, team, offsets, rec,
                    MoveAlong(b, ps, row, col, team, offsets, rec, run))

\* The empty dictionary a get_moves starts from.
NoMoves == [moves |-> <<>>, next |-> 1]

(***************************************************************************)
(* get_moves of each kind                                                  *)
(***************************************************************************)
\* The merge of the two dictionaries with only the empty diagonals dealt
\* with: a forward move that captures stays in the set.
PawnFilterKeepsForward(b, ps, p, stand_moves, capture_moves) ==
    LET Beside(e) == b[p.row][e.col]
        Flagged(e) == /\ Beside(e) # None
                      /\ ps[Beside(e)].type = "PAWN"
                      /\ ps[Beside(e)].en_passant
        captures == [i \in 1 .. Len(capture_moves) |->
                        IF capture_moves[i].captured = None /\ Flagged(capture_moves[i])
                        THEN Plain(capture_moves[i].row, capture_moves[i].col,
                                   Beside(capture_moves[i]))
                        ELSE capture_moves[i]]
        keys_to_be_removed ==
            {<<capture_moves[i].row, capture_moves[i].col>> :
                i \in {j \in 1 .. Len(capture_moves) :
                          capture_moves[j].captured = None /\ ~Flagged(capture_moves[j])}}
    IN  DictDeleteKeys(DictUpdate(stand_moves, captures), keys_to_be_removed)

\* The two loops of Pawn.get_moves over stand_moves and capture_moves and
\* the final update and deletes: a forward move that captures is removed;
\* an empty diagonal becomes an en passant capture of the flagged pawn
\* beside the mover, or is removed.
PawnFilter(b, ps, p, stand_moves, capture_moves) ==
    LET Beside(e) == b[p.row][e.col]
        Flagged(e) == /\ Beside(e) # None
                      /\ ps[Beside(e)].type = "PAWN"
                      /\ ps[Beside(e)].en_passant
        captures == [i \in 1 .. Len(capture_moves) |->
                        IF capture_moves[i].captured = None /\ Flagged(capture_moves[i])
                        THEN Plain(capture_moves[i].row, capture_moves[i].col,
                                   Beside(capture_moves[i]))
                        ELSE capture_moves[i]]
        keys_to_be_removed ==
            {<<stand_moves[i].row, stand_moves[i].col>> :
                i \in {j \in 1 .. Len(stand_moves) : stand_moves[j].captured # None}}
            \cup
            {<<capture_moves[i].row, capture_moves[i].col>> :
                i \in {j \in 1 .. Len(capture_moves) :
                          capture_moves[j].captured = None /\ ~Flagged(capture_moves[j])}}
    IN  DictDeleteKeys(DictUpdate(stand_moves, captures), keys_to_be_removed)

PawnGetMoves(b, ps, id) ==
    PawnFilter(b, ps, ps[id],
               Move(b, ps, ps[id].row + (IF ps[id].team = PLAYER_WHITE THEN -1 ELSE 1),
                    ps[id].col, ps[id].team,
                    IF ps[id].team = PLAYER_WHITE THEN -1 ELSE 1, 0, FALSE,
                    ps[id].first_turn),
               MovesAlong(b, ps, ps[id].row, ps[id].col, ps[id].team,
                          IF ps[id].team = PLAYER_WHITE
                          THEN << <<-1, -1>>, <<-1, 1>> >>
                          ELSE << <<1, -1>>, <<1, 1>> >>,
                          FALSE, NoMoves))

\* North, South, West, East
RookWalks == << <<-1, 0>>, <<1, 0>>, <<0, -1>>, <<0, 1>> >>

RookGetMoves(b, ps, id) ==
    MovesAlong(b, ps, ps[id].row, ps[id].col, ps[id].team, RookWalks, TRUE, NoMoves)

KnightSteps ==
    << <<-2, -1>>, <<-2, 1>>, <<2, -1>>, <<2, 1>>,
       <<-1, -2>>, <<1, -2>>, <<-1, 2>>, <<1, 2>> >>

KnightGetMoves(b, ps, id) ==
    MovesAlong(b, ps, ps[id].row, ps[id].col, ps[id].team, KnightSteps, FALSE, NoMoves)

\* Northwest, Northeast, Southwest, Southeast
BishopWalks == << <<-1, -1>>, <<-1, 1>>, <<1, -1>>, <<1, 1>> >>

BishopGetMoves(b, ps, id) ==
    MovesAlong(b, ps, ps[id].row, ps[id].col, ps[id].team, BishopWalks, TRUE, NoMoves)

\* North, West, South, East, Northwest, Southwest, Southeast, Northeast
QueenWalks ==
    << <<-1, 0>>, <<0, -1>>, <<1, 0>>, <<0, 1>>,
       <<-1, -1>>, <<1, -1>>, <<1, 1>>, <<-1, 1>> >>

QueenGetMoves(b, ps, id) ==
    MovesAlong(b, ps, ps[id].row, ps[id].col, ps[id].team, QueenWalks, TRUE, NoMoves)

KingSteps ==
    << <<-1, 0>>, <<0, -1>>, <<1, 0>>, <<0, 1>>,
       <<-1, -1>>, <<1, -1>>, <<1, 1>>, <<-1, 1>> >>

CheckRook(ps, king, rook) ==
    rook # None /\ ps[rook].type = "ROOK" /\ ps[rook].team = ps[king].team

\* The loop of King.castle over check_path, from its i-th key on.
RECURSIVE CastleLoop(_, _, _, _, _, _)
CastleLoop(b, ps, id, check_path, i, castles) ==
    IF i > Len(check_path) THEN castles
    ELSE LET p == ps[id]
             col == check_path[i].col
             queenside ==
                 IF col = 1 /\ CheckRook(ps, id, b[p.row][0])
                 THEN DictSet(castles, CastleEntry(p.row, 2, b[p.row][0], <<p.row, 3>>))
                 ELSE castles
         IN  CastleLoop(b, ps, id, check_path, i + 1,
                        IF col = 6 /\ CheckRook(ps, id, b[p.row][7])
                        THEN DictSet(queenside,
                                     CastleEntry(p.row, col, b[p.row][7], <<p.row, 5>>))
                        ELSE queenside)

\* West & East
CastleWalks == << <<0, -1>>, <<0, 1>> >>

\* A castle that does not ask whether the king has moved.
CastleOfMovedKing(b, ps, id) ==
    CastleLoop(b, ps, id,
               MovesAlong(b, ps, ps[id].row, ps[id].col, ps[id].team,
                          CastleWalks, TRUE, NoMoves),
               1, <<>>)

Castle(b, ps, id) ==
    CastleLoop(b, ps, id,
               IF ps[id].first_turn
               THEN MovesAlong(b, ps, ps[id].row, ps[id].col, ps[id].team,
                               CastleWalks, TRUE, NoMoves)
               ELSE <<>>,
               1, <<>>)

KingGetMoves(b, ps, id) ==
    DictUpdate(MovesAlong(b, ps, ps[id].row, ps[id].col, ps[id].team,
                          KingSteps, FALSE, NoMoves),
               Castle(b, ps, id))

GetMoves(b, ps, id) ==
    CASE ps[id].type = "PAWN"   -> PawnGetMoves(b, ps, id)
      [] ps[id].type = "ROOK"   -> RookGetMoves(b, ps, id)
      [] ps[id].type = "KNIGHT" -> KnightGetMoves(b, ps, id)
      [] ps[id].type = "BISHOP" -> BishopGetMoves(b, ps, id)
      [] ps[id].type = "QUEEN"  -> QueenGetMoves(b, ps, id)
      [] ps[id].type = "KING"   -> KingGetMoves(b, ps, id)

(***************************************************************************)
(* King.check: the scan over the enemy pieces on the grid.  flag is the   *)
(* value of self._check on entry: an attacker sets it and ends the scan,   *)
(* any other enemy move clears it, an enemy piece with no move leaves it.  *)
(***************************************************************************)
\* "capture is self" for some value of possible_moves.
Threatens(possible_moves, king) ==
    \E i \in 1 .. Len(possible_moves) :
        ~possible_moves[i].castle /\ possible_moves[i].captured = king

\* The squares "for row in range(ROWS): for col in range(COLS)" visits, in
\* that order, that hold a piece of the team opposite to the king's.
EnemySquares(b, ps, king) ==
    SelectSeq([n \in 1 .. ROWS * COLS |-> <<(n - 1) \div COLS, (n - 1) % COLS>>],
              LAMBDA sq : /\ b[sq[1]][sq[2]] # None
                          /\ ps[b[sq[1]][sq[2]]].team # ps[king].team)

\* What the inner loop over the possible_moves of one enemy piece does to
\* the scan: a capture of the king ends it with self._check = True, any
\* other entry has set self._check = False, no entry leaves it alone.
CheckPiece(possible_moves, king) ==
    IF Threatens(possible_moves, king) THEN "break"
    ELSE IF possible_moves = <<>> THEN "continue"
    ELSE "cleared"

\* The loops over the enemy pieces of `squares`, entered with
\* self._check = flag: True when a piece breaks the scan, else False when a
\* piece cleared the flag, else the flag as it was.
CheckScan(b, ps, king, squares, flag) ==
    LET seen == {CheckPiece(GetMoves(b, ps, b[sq[1]][sq[2]]), king) :
                    sq \in Entries(squares)}
    IN  IF "break" \in seen THEN TRUE
        ELSE IF "cleared" \in seen THEN FALSE
        ELSE flag

\* A king that, once flagged, answers that it is in check ever after.
KingCheckSticky(b, ps, king) ==
    ps[king].check \/ CheckScan(b, ps, king, EnemySquares(b, ps, king), FALSE)

\* The value King.check returns, which is also the new value of self._check.
KingCheck(b, ps, king) ==
    CheckScan(b, ps, king, EnemySquares(b, ps, king), ps[king].check)

(***************************************************************************)
(* Board: swap, remove, validate_moves, update_board, promote_pawn         *)
(***************************************************************************)
\* The tuple assignment stores into the piece's recorded square first and
\* into (row, col) second, then the piece records (row, col).
Swap(b, ps, piece, row, col) ==
    LET from_row == ps[piece].row
        from_col == ps[piece].col
        at_dest == b[row][col]
        at_from == b[from_row][from_col]
        b1 == [b EXCEPT ![from_row][from_col] = at_dest]
    IN  [board  |-> [b1 EXCEPT ![row][col] = at_from],
         pieces |-> [ps EXCEPT ![piece].row = row, ![piece].col = col]]

\* A removal that empties the square and leaves the count as it was.
RemoveKeepsCount(b, inv, ps, piece) ==
    IF piece # None
    THEN [board |-> [b EXCEPT ![ps[piece].row][ps[piece].col] = None],
          inventory |-> inv]
    ELSE [board |-> b, inventory |-> inv]

Remove(b, inv, ps, piece) ==
    IF piece # None
    THEN [board |-> [b EXCEPT ![ps[piece].row][ps[piece].col] = None],
          inventory |-> [inv EXCEPT ![<<ps[piece].team, ps[piece].type>>] = @ - 1]]
    ELSE [board |-> b, inventory |-> inv]

\* The objects after king.check has stored its result in the king.
Checked(ps, king, result) == [ps EXCEPT ![king].check = result]

RECURSIVE ProbeKings(_, _, _, _, _)
RECURSIVE ProbeKing(_, _, _, _, _, _)

ProbeKing(b, ps, piece, j, hit, result) ==
    ProbeKings(b, Checked(ps, Kings[j], result), piece, j + 1, hit \/ result)

\* "for king in self._kings: if king.get_team() == piece.get_team():
\*      if king.check(self): keys_to_be_removed.append(...)", king j onward.
ProbeKings(b, ps, piece, j, hit) ==
    IF j > Len(Kings) THEN [pieces |-> ps, hit |-> hit]
    ELSE IF ps[Kings[j]].team = ps[piece].team
    THEN ProbeKing(b, ps, piece, j, hit, KingCheck(b, ps, Kings[j]))
    ELSE ProbeKings(b, ps, piece, j + 1, hit)

\* "self._board[captured_row][captured_col] = None" for a captured piece.
Lifted(b, ps, captured) ==
    IF captured # None
    THEN [b EXCEPT ![ps[captured].row][ps[captured].col] = None]
    ELSE b

\* "self._board[captured_row][captured_col] = captured;
\*  captured.change_pos(captured_row, captured_col)" after the swap back.
PutBack(back, hit, captured, captured_row, captured_col) ==
    IF captured # None
    THEN [board  |-> [back.board EXCEPT ![captured_row][captured_col] = captured],
          pieces |-> [back.pieces EXCEPT ![captured].row = captured_row,
                                         ![captured].col = captured_col],
          hit    |-> hit]
    ELSE [board |-> back.board, pieces |-> back.pieces, hit |-> hit]

\* The swap back once the kings were asked on the probed grid.
SwapBack(b, piece, e, return_row, return_col, asked, captured_row, captured_col) ==
    PutBack(Swap(b, asked.pieces, piece, return_row, return_col), asked.hit,
            e.captured, captured_row, captured_col)

\* The kings are asked once the preliminary swap is made.
Ask(piece, e, return_row, return_col, there, captured_row, captured_col) ==
    SwapBack(there.board, piece, e, return_row, return_col,
             ProbeKings(there.board, there.pieces, piece, 1, FALSE),
             captured_row, captured_col)

\* One probe of validate_moves: take the captured piece off, swap, ask the
\* king, swap back and put the captured piece back.
Probe(b, ps, piece, e, return_row, return_col) ==
    Ask(piece, e, return_row, return_col,
        Swap(Lifted(b, ps, e.captured), ps, piece, e.row, e.col),
        IF e.captured # None THEN ps[e.captured].row ELSE 0,
        IF e.captured # None THEN ps[e.captured].col ELSE 0)

\* One pass of the loop of validate_moves, for the candidate run.next, on
\* the grid, the objects and the keys_to_be_removed the passes before it
\* left: a castle descriptor is passed over, any other candidate is probed
\* and its key is noted when the king is in check.
Validated(run, piece, moves, return_row, return_col) ==
    IF moves[run.next].castle THEN [run EXCEPT !.next = @ + 1]
    ELSE LET probed == Probe(run.board, run.pieces, piece, moves[run.next],
                             return_row, return_col)
         IN  [board  |-> probed.board,
              pieces |-> probed.pieces,
              keys   |-> IF probed.hit
                         THEN run.keys \cup {<<moves[run.next].row, moves[run.next].col>>}
                         ELSE run.keys,
              next   |-> run.next + 1]

\* The loop of validate_moves from the candidate run.next onward.
RECURSIVE ValidateLoop(_, _, _, _, _)
ValidateLoop(run, piece, moves, return_row, return_col) ==
    IF run.next > Len(moves) THEN run
    ELSE ValidateLoop(Validated(run, piece, moves, return_row, return_col),
                      piece, moves, return_row, return_col)

\* "for key in keys_to_be_removed: del moves[key]"
Filtered(moves, done) ==
    [board |-> done.board, pieces |-> done.pieces,
     moves |-> DictDeleteKeys(moves, done.keys)]

ValidateMoves(b, ps, piece, moves) ==
    Filtered(moves,
             ValidateLoop([board |-> b, pieces |-> ps, keys |-> {}, next |-> 1],
                          piece, moves, ps[piece].row, ps[piece].col))

\* An en passant test that takes a neighbouring pawn of either team.
EnPassantBesideAnyPawn(b, ps, pawn) ==
    LET p == ps[pawn]
        left == IF p.col > 0 THEN b[p.row][p.col - 1] ELSE None
        right == IF p.col < 7 THEN b[p.row][p.col + 1] ELSE None
        AnyPawn(x) == x # None /\ ps[x].type = "PAWN"
    IN  IF p.first_turn /\ 3 <= p.row /\ p.row <= 4 /\ (AnyPawn(left) \/ AnyPawn(right))
        THEN TRUE
        ELSE p.en_passant

\* Pawn.en_passant: the new value of self._en_passant.
EnPassant(b, ps, pawn) ==
    LET p == ps[pawn]
        left == IF p.col > 0 THEN b[p.row][p.col - 1] ELSE None
        right == IF p.col < 7 THEN b[p.row][p.col + 1] ELSE None
        EnemyPawn(x) == x # None /\ ps[x].type = "PAWN" /\ ps[x].team # p.team
    IN  IF p.first_turn /\ 3 <= p.row /\ p.row <= 4 /\ (EnemyPawn(left) \/ EnemyPawn(right))
        THEN TRUE
        ELSE p.en_passant

\* "for king in self._kings: king.check(self)", king j onward.
RECURSIVE CheckKings(_, _, _)
CheckKings(b, ps, j) ==
    IF j > Len(Kings) THEN ps
    ELSE CheckKings(b, Checked(ps, Kings[j], KingCheck(b, ps, Kings[j])), j + 1)

\* update_board from "determine check" on: both kings, then piece.not_first().
Settle(b, ps, inv, prom, piece) ==
    [board |-> b,
     pieces |-> [CheckKings(b, ps, 1) EXCEPT ![piece].first_turn = FALSE],
     inventory |-> inv,
     promoted |-> prom]

\* update_board after the swap: the pawn's en passant flag and promotion slot.
Moved(swapped, inv, prom, piece, row) ==
    IF swapped.pieces[piece].type = "PAWN"
    THEN Settle(swapped.board,
                [swapped.pieces EXCEPT
                    ![piece].en_passant = EnPassant(swapped.board, swapped.pieces, piece)],
                inv,
                IF row = 0 \/ row = 7 THEN piece ELSE prom,
                piece)
    ELSE Settle(swapped.board, swapped.pieces, inv, prom, piece)

\* update_board after the remove.
Removed(removed, ps, prom, piece, row, col) ==
    Moved(Swap(removed.board, ps, piece, row, col), removed.inventory, prom, piece, row)

UpdateBoard(b, ps, inv, prom, piece, row, col, captured) ==
    Removed(Remove(b, inv, ps, captured), ps, prom, piece, row, col)

\* choices[choice_col]: the kind shown in column choice_col of the prompt.
PromotionChoice(choice_col) ==
    CASE choice_col = 2 -> "QUEEN"
      [] choice_col = 3 -> "KNIGHT"
      [] choice_col = 4 -> "ROOK"
      [] choice_col = 5 -> "BISHOP"

\* A choice that empties the slot and leaves the pawn on its square.
PromotePawnForgotten(b, ps, inv, pawn, choice_col) ==
    [board |-> b, pieces |-> ps, inventory |-> inv, promoted |-> None]

\* The new object takes the id of the pawn it replaces: once the pending
\* slot is cleared nothing refers to the pawn object any more.
PromotePawn(b, ps, inv, pawn, choice_col) ==
    LET team == ps[pawn].team
        pawn_row == ps[pawn].row
        pawn_col == ps[pawn].col
        type == PromotionChoice(choice_col)
    IN  [board |-> [b EXCEPT ![pawn_row][pawn_col] = pawn],
         pieces |-> [ps EXCEPT ![pawn] = NewPiece(type, team, pawn_row, pawn_col)],
         inventory |-> [inv EXCEPT ![<<team, type>>] = @ + 1],
         promoted |-> None]

\* The objects that stand on the grid.
OnBoard(b) == {b[row][col] : row \in RowRange, col \in ColRange} \ {None}

\* A new turn that leaves every flag as it is.
KeepEnPassant(b, ps, turn_team) == ps

ClearEnPassant(b, ps, turn_team) ==
    [id \in DOMAIN ps |->
        IF id \in OnBoard(b) /\ ps[id].team = turn_team /\ ps[id].type = "PAWN"
        THEN [ps[id] EXCEPT !.en_passant = FALSE]
        ELSE ps[id]]

Opponent(team) == IF team = PLAYER_WHITE THEN PLAYER_BLACK ELSE PLAYER_WHITE

(***************************************************************************)
(* Game: get_winner, update_turn, choose, make_move                        *)
(***************************************************************************)
\* The moves choose offers for a piece: get_moves, then validate_moves.
LegalMoves(b, ps, piece) == ValidateMoves(b, ps, piece, GetMoves(b, ps, piece))

\* Board.checkmate is called by Game.get_winner and defined nowhere in
\* src/: the team's king is attacked and no piece of the team has a move
\* left after filtering.
Sign(n) == IF n > 0 THEN 1 ELSE IF n < 0 THEN -1 ELSE 0

Abs(n) == IF n < 0 THEN -n ELSE n

\* The squares between the piece p and the square dr rows and dc columns
\* away, along a rank, a file or a diagonal, are empty.
Open(b, p, dr, dc) ==
    \A j \in 1 .. (IF Abs(dr) > Abs(dc) THEN Abs(dr) ELSE Abs(dc)) - 1 :
        b[p.row + j * Sign(dr)][p.col + j * Sign(dc)] = None

\* The raw moves of the piece p hold a capture on the square dr rows and dc
\* columns from the square p records, when an enemy stands there.
Reaches(b, p, dr, dc) ==
    CASE p.type = "PAWN"   -> dr = (IF p.team = PLAYER_WHITE THEN -1 ELSE 1) /\ Abs(dc) = 1
      [] p.type = "KNIGHT" -> {Abs(dr), Abs(dc)} = {1, 2}
      [] p.type = "KING"   -> {Abs(dr), Abs(dc)} \in {{1}, {0, 1}}
      [] p.type = "ROOK"   -> (dr = 0) # (dc = 0) /\ Open(b, p, dr, dc)
      [] p.type = "BISHOP" -> Abs(dr) = Abs(dc) /\ dr # 0 /\ Open(b, p, dr, dc)
      [] p.type = "QUEEN"  -> /\ (dr = 0) # (dc = 0) \/ (Abs(dr) = Abs(dc) /\ dr # 0)
                              /\ Open(b, p, dr, dc)

\* In check: the raw moves of an enemy piece on the grid hold a capture of
\* the king, on a square where the grid holds the king.
Attacked(b, ps, king) ==
    \E row \in RowRange, col \in ColRange :
        /\ b[row][col] = king
        /\ \E id \in OnBoard(b) :
              /\ ps[id].team # ps[king].team
              /\ Reaches(b, ps[id], row - ps[id].row, col - ps[id].col)

\* The king's own moves are looked at first, then those of every piece.
Checkmate(b, ps, team) ==
    /\ \E j \in 1 .. Len(Kings) : ps[Kings[j]].team = team /\ Attacked(b, ps, Kings[j])
    /\ \A id \in OnBoard(b) :
          (ps[id].team = team /\ ps[id].type = "KING")
              => LegalMoves(b, ps, id).moves = <<>>
    /\ \A id \in OnBoard(b) :
          ps[id].team = team => LegalMoves(b, ps, id).moves = <<>>

\* The teams Board.checkmate holds for.
Mated(b, ps) == {team \in {PLAYER_BLACK, PLAYER_WHITE} : Checkmate(b, ps, team)}

\* A result that names the mated team as the winner.
WinnerIsMated(mated) ==
    IF PLAYER_BLACK \in mated THEN PLAYER_BLACK
    ELSE IF PLAYER_WHITE \in mated THEN PLAYER_WHITE
    ELSE UNFINISHED

Winner(mated) ==
    IF PLAYER_BLACK \in mated THEN PLAYER_WHITE
    ELSE IF PLAYER_WHITE \in mated THEN PLAYER_BLACK
    ELSE UNFINISHED

GetWinner(b, ps) == Winner(Mated(b, ps))

\* A castle that moves the king and leaves the rook on its corner.
UpdatesOfKingAlone(piece, e) ==
    << [piece |-> piece, row |-> e.row, col |-> e.col,
        captured |-> IF e.castle THEN None ELSE e.captured] >>

\* The calls of update_board make_move makes for the entry e of valid_moves:
\* the king and then the rook for a castle, else the chosen piece.
Updates(piece, e) ==
    IF e.castle
    THEN << [piece |-> piece, row |-> e.row, col |-> e.col, captured |-> None],
            [piece |-> e.rook, row |-> e.pos[1], col |-> e.pos[2], captured |-> None] >>
    ELSE << [piece |-> piece, row |-> e.row, col |-> e.col, captured |-> e.captured] >>

RECURSIVE UpdateBoards(_, _, _)
UpdateBoards(now, updates, i) ==
    IF i > Len(updates) THEN now
    ELSE UpdateBoards(UpdateBoard(now.board, now.pieces, now.inventory, now.promoted,
                                  updates[i].piece, updates[i].row, updates[i].col,
                                  updates[i].captured),
                      updates, i + 1)

\* The state make_move leaves for a destination that is in valid_moves.
MakeMoveResult(b, ps, inv, prom, piece, e) ==
    UpdateBoards([board |-> b, pieces |-> ps, inventory |-> inv, promoted |-> prom],
                 Updates(piece, e), 1)

(***************************************************************************)
(* The user.  A run starts on the constructed board, clicks through one of *)
(* the openings below, and then clicks on any squares, MaxClicks times.    *)
(* An opening is written move by move in ICCF numeric notation: 5254 is    *)
(* the click on e2 (file 5, rank 2) followed by the click on e4; a         *)
(* two-digit entry is a single click.                                      *)
(***************************************************************************)
\* get_row_col_from_mouse for a click on the square of file f, rank r.
Square(n) == <<8 - (n % 10), (n \div 10) - 1>>

RECURSIVE ClicksOf(_)
ClicksOf(moves) ==
    IF moves = <<>> THEN <<>>
    ELSE IF Head(moves) < 100
    THEN <<Square(Head(moves))>> \o ClicksOf(Tail(moves))
    ELSE <<Square(Head(moves) \div 100), Square(Head(moves) % 100)>>
             \o ClicksOf(Tail(moves))

\* No opening: free clicks on the constructed board.
GameStart == <<>>

\* 1. e4 a6 2. e5 d5: the black pawn has made its double step beside the
\* white pawn on e5.
GameEnPassant == <<5254, 1716, 5455, 4745>>

\* 1. e4 a6 2. e5 d5 3. a3 a5: White has let the capture on d6 pass.
GameEnPassantDeclined == <<5254, 1716, 5455, 4745, 1213, 1615>>

\* 1. e4 e5 2. Nf3 Nc6 3. Bc4 Bc5 4. d3 d6 5. Nc3 Nf6 6. Be3 Be6 7. Qd2 Qd7:
\* both ranks are clear between the kings and their rooks.
GameCastles ==
    <<5254, 5755, 7163, 2836, 6134, 6835, 4243, 4746, 2133, 7866, 3153, 3856,
      4142, 4847>>

\* 1. e4 Nf6 2. Bc4 Nh5 3. Nf3 Nf4 4. a3 Nh3 5. a4 Ng1: a black knight
\* stands on g1, beside the white rook.
GameKnightOnG1 == <<5254, 7866, 6134, 6685, 7163, 8564, 1213, 6483, 1314, 8371>>

\* The same game and 6. O-O, the castle the engine offers there.
GameKnightCastled ==
    <<5254, 7866, 6134, 6685, 7163, 8564, 1213, 6483, 1314, 8371, 5171>>

\* 1. f4 e5 2. Nf3 Bc5 3. g3 d6 4. Bg2 a6 5. O-O: the bishop on c5 looks
\* at g1 through d4, e3 and f2.
GameCastleIntoCheck == <<6264, 5755, 7163, 6835, 7273, 4746, 6172, 1716, 5171>>

\* 1. Nf3 a6 2. e4 a5 3. Be2 a4 4. Rg1 h6 5. Rh1 h5: the king's rook has
\* left its corner and come back.
GameRookReturns == <<7163, 1716, 5254, 1615, 6152, 1514, 8171, 8786, 7181, 8685>>

\* 1. e4 a6 2. Ke2 a5 3. Ke1 a4 4. Nf3 h6 5. Be2 h5: the king has left its
\* square and come back.
GameKingReturns == <<5254, 1716, 5152, 1615, 5251, 1514, 7163, 8786, 6152, 8685>>

\* 1. a4 b5 2. axb5 a6 3. bxa6 Bb7 4. axb7 Nc6 5. bxa8: the pawn waits on
\* the last rank for the choice of a piece.
GamePromotion == <<1214, 2725, 1425, 1716, 2516, 3827, 1627, 2836, 2718>>

\* 1. e4 e5 2. Qh5 Nf6 3. a3 Bc5 4. Qxf7+ O-O 5. Qxg8 Bd4 6. Qxf8 Bc5
\* 7. Qxd8 Bd4 8. Qxc8 Bc5 9. Qxb8 Bd4 10. Qxa8 Bc5 11. Qxa7 Bd4 12. Qxb7 Bc5
\* 13. Qxc7 Bd4 14. Qxd7 Bc5 15. Qxg7 Bd4 16. Qxf6 h6 17. Qxh6 Bc5 18. d3 Bb4+:
\* Black castles out of the check, loses the king on g8 and all the rest but
\* the blocked pawn on e5 and the bishop that now checks from b4.
GameLoneBishop ==
    <<5254, 5755, 4185, 7866, 1213, 6835, 8567, 5878, 6778, 3544, 7868, 4435,
      6848, 3544, 4838, 4435, 3828, 3544, 2818, 4435, 1817, 3544, 1727, 4435,
      2737, 3544, 3747, 4435, 4777, 3544, 7766, 8786, 6686, 4435, 4243, 3524>>

\* The same game, and then clicks beside the four choices of the prompt
\* while the pawn waits: e7, e4, b5, g5 and d6.
GamePromotionRefused ==
    <<1214, 2725, 1425, 1716, 2516, 3827, 1627, 2836, 2718, 57, 54, 25, 75, 46>>

\* The game of the lone bishop up to 17. Qxh6 Bc5, and then 18. Qe3 Bb6
\* 19. Qxb6: Black is left with the pawn on e5, blocked by the pawn on e4.
GameBlockedPawn ==
    <<5254, 5755, 4185, 7866, 1213, 6835, 8567, 5878, 6778, 3544, 7868, 4435,
      6848, 3544, 4838, 4435, 3828, 3544, 2818, 4435, 1817, 3544, 1727, 4435,
      2737, 3544, 3747, 4435, 4777, 3544, 7766, 8786, 6686, 4435, 8653, 3526,
      5326>>

\* 1. f3 e5 2. g4 Qh4: the white king is attacked along h4-e1 and White
\* has no move that ends the attack.
GameFoolsMate == <<6263, 5755, 7274, 4884>>

\* 1. f3 e5 2. a3 Qh4: the same attack, and the pawn on g2 can step between.
GameCheckWithEscape == <<6263, 5755, 1213, 4884>>

\* 1. f4 e5 2. g3 Bc5 3. Bg2 Bxg1 4. O-O: the castle the engine offers
\* over the black bishop on g1.
GameBishopCastledOver == <<6264, 5755, 7273, 6835, 6172, 3571, 5171>>

\* White clicks e2 and then e6, which the pawn cannot reach, then the empty
\* d4 and the black pawn on d7; after 1. e4 Black clicks the empty d5 and
\* the white pawn on d2.
GameIdleClicks == <<5256, 44, 47, 5254, 45, 42>>

\* Destinations that are refused: e2 to e6, then 1. e4; e7 to e3, then
\* 1... Nf6; 2. Qh5; f6 to e7, where Black's own pawn stands, then 2... Nxh5.
GameRejectedMoves == <<5256, 5254, 5753, 7866, 4185, 6657, 6685>>

\* 1. a4 b5 2. axb5 Bb7 3. b6 e6 4. bxa7 Qh4 5. axb8 and the choice of a
\* queen: she stands on b8 with c8 and d8 empty before the black king.
GamePromotionWithCheck == <<1214, 2725, 1425, 3827, 2526, 5756, 2617, 4884, 1728, 35>>

\* 1. e4 Nf6 2. Qh5 Nxh5 3. Bb5 and a click on the d7 pawn, which is pinned
\* to the black king.
GamePinnedPawn == <<5254, 7866, 4185, 6685, 6125, 47>>

\* 1. c4 e5 2. a3 e4 3. d4 a6 and a click on the c4 pawn: the d4 pawn made
\* its double step beside the black pawn on e4 a turn ago and stands beside
\* the c4 pawn, with d5 empty.
GameOwnPawnBeside == <<3234, 5755, 1213, 5554, 4244, 1716, 34>>

Games ==
    <<GameStart, GameEnPassant, GameEnPassantDeclined, GameCastles, GameKnightOnG1,
      GameKnightCastled, GameCastleIntoCheck, GameRookReturns, GameKingReturns,
      GamePromotion, GameLoneBishop, GamePromotionRefused, GameBlockedPawn,
      GameFoolsMate, GameCheckWithEscape, GameBishopCastledOver,
      GameIdleClicks, GameRejectedMoves, GamePromotionWithCheck, GamePinnedPawn,
      GameOwnPawnBeside>>

Script == [g \in 1 .. Len(Games) |-> ClicksOf(Games[g])]

\* The clicks the user may make now.
MayClick(row, col) ==
    IF clicks < Len(Script[game])
    THEN <<row, col>> = Script[game][clicks + 1]
    ELSE clicks < Len(Script[game]) + MaxClicks

\* main: a mouse click is passed to Game.choose while no one has won.
Clickable == GetWinner(board, pieces) = UNFINISHED

\* The arguments of one call of Piece.move: the square it looks at and its
\* vert, horiz, rec and first.
MoveCall(row, col, vert, horiz, rec, first) ==
    [row |-> row, col |-> col, vert |-> vert, horiz |-> horiz, rec |-> rec, first |-> first]

\* No call of Game.choose is running: main waits for the next event.
NoCall ==
    [pc     |-> "idle",
     op     |-> "none",
     piece  |-> None,
     moves  |-> <<>>,
     run    |-> [board |-> SetUpBoard, pieces |-> SetUpObjects, keys |-> {}, next |-> 1],
     probed |-> {},
     now    |-> [board |-> SetUpBoard, pieces |-> SetUpObjects,
                 inventory |-> SetUpPieces, promoted |-> None],
     u      |-> 1,
     grid   |-> [board |-> SetUpBoard, pieces |-> SetUpObjects],
     king   |-> 0,
     sq     |-> 1,
     who    |-> None,
     k      |-> 1,
     frame  |-> MoveCall(0, 0, 0, 0, FALSE, FALSE),
     depth  |-> 0]

\* The MOUSEBUTTONDOWN branch of main: one more call of Game.choose.
Clicked ==
    /\ clicks' = clicks + 1
    /\ game' = game
    /\ resets' = resets
    /\ call' = call
    /\ beat' = beat

\* The board after an operation: its grid, objects, inventory and pending slot.
BoardBecomes(new) ==
    /\ board' = new.board
    /\ pieces' = new.pieces
    /\ inventory' = new.inventory
    /\ promoted' = new.promoted

(***************************************************************************)
(* Game.choose(row, col), one action for each of its branches              *)
(***************************************************************************)
\* A choice of piece that passes the turn a second time.
PromotePassesTurn ==
    /\ promoted # None
    /\ Clickable
    /\ \E row \in RowRange, col \in ColRange :
          /\ MayClick(row, col)
          /\ row = 3 /\ 2 <= col /\ col <= 5
          /\ BoardBecomes(PromotePawn(board, pieces, inventory, promoted, col))
    /\ turn' = Opponent(turn)
    /\ UNCHANGED <<chosen, valid_moves>>
    /\ Clicked

\* A promotion is pending and the click is on one of the four choices.
Promote ==
    /\ promoted # None
    /\ Clickable
    /\ \E row \in RowRange, col \in ColRange :
          /\ MayClick(row, col)
          /\ row = 3 /\ 2 <= col /\ col <= 5
          /\ BoardBecomes(PromotePawn(board, pieces, inventory, promoted, col))
    /\ UNCHANGED <<turn, chosen, valid_moves>>
    /\ Clicked

\* A click beside the choices that drops the pending promotion.
RejectPendingDrops ==
    /\ promoted # None
    /\ Clickable
    /\ \E row \in RowRange, col \in ColRange :
          /\ MayClick(row, col)
          /\ ~(row = 3 /\ 2 <= col /\ col <= 5)
    /\ promoted' = None
    /\ UNCHANGED <<board, pieces, inventory, turn, chosen, valid_moves>>
    /\ Clicked

\* A promotion is pending and the click is anywhere else.
RejectPending ==
    /\ promoted # None
    /\ Clickable
    /\ \E row \in RowRange, col \in ColRange :
          /\ MayClick(row, col)
          /\ ~(row = 3 /\ 2 <= col /\ col <= 5)
    /\ UNCHANGED state
    /\ Clicked

\* Game.update_turn after a confirmed move.
UpdateTurn(done) ==
    /\ turn' = Opponent(turn)
    /\ board' = done.board
    /\ pieces' = ClearEnPassant(done.board, done.pieces, Opponent(turn))
    /\ inventory' = done.inventory
    /\ promoted' = done.promoted

\* Game.make_move for a destination that is in valid_moves.
MakeMove ==
    /\ promoted = None
    /\ chosen # None
    /\ Clickable
    /\ \E row \in RowRange, col \in ColRange :
          /\ MayClick(row, col)
          /\ HasKey(valid_moves, row, col)
          /\ UpdateTurn(MakeMoveResult(board, pieces, inventory, promoted, chosen,
                                       Lookup(valid_moves, row, col)))
    /\ chosen' = None
    /\ valid_moves' = <<>>
    /\ Clicked

\* A refused destination that leaves the piece chosen.
RejectMoveKeeps ==
    /\ promoted = None
    /\ chosen # None
    /\ Clickable
    /\ \E row \in RowRange, col \in ColRange :
          /\ MayClick(row, col)
          /\ ~HasKey(valid_moves, row, col)
    /\ UNCHANGED state
    /\ Clicked

\* Game.make_move for any other destination: the selection is dropped.
RejectMove ==
    /\ promoted = None
    /\ chosen # None
    /\ Clickable
    /\ \E row \in RowRange, col \in ColRange :
          /\ MayClick(row, col)
          /\ ~HasKey(valid_moves, row, col)
    /\ chosen' = None
    /\ UNCHANGED <<board, pieces, inventory, promoted, turn, valid_moves>>
    /\ Clicked

\* The grid, the objects and the selection after get_moves and
\* validate_moves: the piece is chosen when a move is left.
Selected(piece, legal) ==
    /\ board' = legal.board
    /\ pieces' = legal.pieces
    /\ valid_moves' = legal.moves
    /\ chosen' = IF legal.moves = <<>> THEN None ELSE piece

\* A click on a piece of the team on turn while nothing is chosen.
Select ==
    /\ promoted = None
    /\ chosen = None
    /\ Clickable
    /\ \E row \in RowRange, col \in ColRange :
          /\ MayClick(row, col)
          /\ board[row][col] # None
          /\ pieces[board[row][col]].team = turn
          /\ Selected(board[row][col], LegalMoves(board, pieces, board[row][col]))
    /\ UNCHANGED <<inventory, promoted, turn>>
    /\ Clicked

\* An invalid choice that also empties the valid-move set.
InvalidChoiceClears ==
    /\ promoted = None
    /\ chosen = None
    /\ Clickable
    /\ \E row \in RowRange, col \in ColRange :
          /\ MayClick(row, col)
          /\ ~(board[row][col] # None /\ pieces[board[row][col]].team = turn)
    /\ valid_moves' = <<>>
    /\ UNCHANGED <<board, pieces, inventory, promoted, turn, chosen>>
    /\ Clicked

\* A click on an empty square or an enemy piece while nothing is chosen.
InvalidChoice ==
    /\ promoted = None
    /\ chosen = None
    /\ Clickable
    /\ \E row \in RowRange, col \in ColRange :
          /\ MayClick(row, col)
          /\ ~(board[row][col] # None /\ pieces[board[row][col]].team = turn)
    /\ UNCHANGED state
    /\ Clicked

Init ==
    /\ board = SetUpBoard
    /\ pieces = SetUpObjects
    /\ inventory = SetUpPieces
    /\ promoted = None
    /\ turn = PLAYER_WHITE
    /\ chosen = None
    /\ valid_moves = <<>>
    /\ game \in 1 .. Len(Games)
    /\ clicks = 0
    /\ resets = 0
    /\ call = NoCall
    /\ beat = FALSE

Next ==
    \/ Promote
    \/ RejectPending
    \/ MakeMove
    \/ RejectMove
    \/ Select
    \/ InvalidChoice

Spec == Init /\ [][Next]_vars

(***************************************************************************)
(* Game.reset, called on the game in whatever state it is: a new Board, and *)
(* the turn, the selection and the valid-move set of a new Game.  The user  *)
(* goes on with free clicks on the new board.                               *)
(***************************************************************************)
\* The user after a reset: the opening is over.
Restarted ==
    /\ resets < MaxResets
    /\ resets' = resets + 1
    /\ game' = game
    /\ clicks' = Len(Script[game])
    /\ call' = call
    /\ beat' = beat

\* A reset that keeps the Board object it has.
ResetKeepsBoard ==
    /\ turn' = PLAYER_WHITE
    /\ chosen' = None
    /\ valid_moves' = <<>>
    /\ UNCHANGED <<board, pieces, inventory, promoted>>
    /\ Restarted

Reset ==
    /\ board' = SetUpBoard
    /\ pieces' = SetUpObjects
    /\ inventory' = SetUpPieces
    /\ promoted' = None
    /\ turn' = PLAYER_WHITE
    /\ chosen' = None
    /\ valid_moves' = <<>>
    /\ Restarted

NextReset ==
    \/ Next
    \/ Reset

SpecReset == Init /\ [][NextReset]_vars

(***************************************************************************)
(* Game.choose step by step.  The call stack below choose is followed one  *)
(* frame at a time: get_moves of the clicked piece, the loop of            *)
(* validate_moves, the scan of King.check, get_moves of each enemy piece   *)
(* it meets and every call of Piece.move, the recursive ones included.     *)
(* The values the frames return are those of the operators above, taken    *)
(* when the frame returns; the program's variables change when choose      *)
(* returns.  The user clicks through the opening and once more.            *)
(***************************************************************************)
\* main is between two events, the opening or the click after it to come.
Playing == call.pc = "idle" /\ clicks <= Len(Script[game])

\* "self.move(board, self._row + dr, self._col + dc, ...)" for each offset:
\* a walk passes vert, horiz = dr, dc and rec = True, a step the defaults.
CallsAlong(p, offsets, rec) ==
    [i \in 1 .. Len(offsets) |->
        MoveCall(p.row + offsets[i][1], p.col + offsets[i][2],
                 IF rec THEN offsets[i][1] ELSE 0,
                 IF rec THEN offsets[i][2] ELSE 0,
                 rec, FALSE)]

\* The calls of Piece.move that get_moves of the piece makes, in the order
\* of the source; King.castle adds its two walks for a king on first turn.
MoveCalls(ps, id) ==
    LET p == ps[id]
        forward == IF p.team = PLAYER_WHITE THEN -1 ELSE 1
    IN  CASE p.type = "PAWN" ->
               <<MoveCall(p.row + forward, p.col, forward, 0, FALSE, p.first_turn)>>
               \o CallsAlong(p, << <<forward, -1>>, <<forward, 1>> >>, FALSE)
          [] p.type = "ROOK"   -> CallsAlong(p, RookWalks, TRUE)
          [] p.type = "KNIGHT" -> CallsAlong(p, KnightSteps, FALSE)
          [] p.type = "BISHOP" -> CallsAlong(p, BishopWalks, TRUE)
          [] p.type = "QUEEN"  -> CallsAlong(p, QueenWalks, TRUE)
          [] p.type = "KING"   ->
               CallsAlong(p, KingSteps, FALSE)
               \o (IF p.first_turn THEN CallsAlong(p, CastleWalks, TRUE) ELSE <<>>)

\* The frame of Piece.move reaches "if rec or first" and calls itself: its
\* square is on the board and empty.
Recurses(b, f) ==
    /\ ~(f.row < 0 \/ f.row > 7 \/ f.col < 0 \/ f.col > 7)
    /\ b[f.row][f.col] = None
    /\ (f.rec \/ f.first)

\* A frame that calls itself for the square it stands on.
DeeperInPlace(f) == MoveCall(f.row, f.col, f.vert, f.horiz, f.rec, FALSE)

\* "self.move(board, row + vert, col + horiz, team, vert, horiz, rec)".
Deeper(f) == MoveCall(f.row + f.vert, f.col + f.horiz, f.vert, f.horiz, f.rec, FALSE)

\* piece.get_moves(board) is entered for the piece `who`: its first call of
\* Piece.move.
Entered(c, who) ==
    [c EXCEPT !.pc = "get_moves", !.who = who, !.k = 1,
              !.frame = MoveCalls(c.grid.pieces, who)[1], !.depth = 1]

\* The enemy pieces King.check meets on the grid it reads.
ScanSquares(c) == EnemySquares(c.grid.board, c.grid.pieces, Kings[c.king])

\* choose is entered: the program's variables and the user are where they
\* were.
Entering ==
    /\ UNCHANGED <<board, pieces, inventory, promoted, turn, chosen, valid_moves,
                   game, clicks, resets>>
    /\ beat' = FALSE

\* A step inside the call: the program's variables and the user are where
\* they were.
Within ==
    /\ UNCHANGED <<board, pieces, inventory, promoted, turn, chosen, valid_moves,
                   game, clicks, resets>>
    /\ beat' = ~beat

\* choose returns to main.
Returned ==
    /\ call' = NoCall
    /\ clicks' = clicks + 1
    /\ game' = game
    /\ resets' = resets
    /\ beat' = ~beat

\* A first click on a piece of the team on turn: "piece.get_moves(self._board)".
ChooseSelect ==
    /\ Playing
    /\ promoted = None
    /\ chosen = None
    /\ Clickable
    /\ \E row \in RowRange, col \in ColRange :
          /\ MayClick(row, col)
          /\ board[row][col] # None
          /\ pieces[board[row][col]].team = turn
          /\ call' = Entered([NoCall EXCEPT !.op = "select",
                                            !.piece = board[row][col],
                                            !.grid = [board |-> board, pieces |-> pieces]],
                             board[row][col])
    /\ Entering

\* A frame of Piece.move calls itself.
WalkOn ==
    /\ call.pc = "get_moves"
    /\ call.depth > 0
    /\ Recurses(call.grid.board, call.frame)
    /\ call' = [call EXCEPT !.frame = Deeper(call.frame), !.depth = @ + 1]
    /\ Within

\* The frames of Piece.move return to get_moves, which makes its next call.
NextCall ==
    /\ call.pc = "get_moves"
    /\ call.depth > 0
    /\ ~Recurses(call.grid.board, call.frame)
    /\ call.k < Len(MoveCalls(call.grid.pieces, call.who))
    /\ call' = [call EXCEPT !.k = @ + 1,
                            !.frame = MoveCalls(call.grid.pieces, call.who)[call.k + 1],
                            !.depth = 1]
    /\ Within

\* The frames of the last call of Piece.move return to get_moves.
LastCall ==
    /\ call.pc = "get_moves"
    /\ call.depth > 0
    /\ ~Recurses(call.grid.board, call.frame)
    /\ call.k = Len(MoveCalls(call.grid.pieces, call.who))
    /\ call' = [call EXCEPT !.depth = 0]
    /\ Within

\* get_moves of the clicked piece returns to choose, which calls
\* validate_moves.
RawMoves ==
    /\ call.pc = "get_moves"
    /\ call.depth = 0
    /\ call.king = 0
    /\ call' = [call EXCEPT !.pc = "validate",
                            !.moves = GetMoves(board, pieces, call.piece),
                            !.run = [board |-> board, pieces |-> pieces,
                                     keys |-> {}, next |-> 1]]
    /\ Within

\* get_moves of an enemy piece returns to King.check: a capture of the king
\* breaks out of the loops, else the scan goes on.
EnemyMoves ==
    /\ call.pc = "get_moves"
    /\ call.depth = 0
    /\ call.king # 0
    /\ call' = [call EXCEPT
                  !.pc = "check",
                  !.sq = IF CheckPiece(GetMoves(call.grid.board, call.grid.pieces, call.who),
                                       Kings[call.king]) = "break"
                         THEN Len(ScanSquares(call)) + 1
                         ELSE call.sq + 1]
    /\ Within

\* King.check meets the next enemy piece: "piece.get_moves(board)".
Scan ==
    /\ call.pc = "check"
    /\ call.sq <= Len(ScanSquares(call))
    /\ call' = Entered(call, call.grid.board[ScanSquares(call)[call.sq][1]]
                                            [ScanSquares(call)[call.sq][2]])
    /\ Within

\* King.check has returned to validate_moves: the swap back, and the loop
\* goes to its next candidate.
Probed(c) ==
    [c EXCEPT !.pc = "validate",
              !.run = Validated(c.run, c.piece, c.moves,
                                pieces[c.piece].row, pieces[c.piece].col)]

\* validate_moves passes over a castle descriptor.
PassOver ==
    /\ call.pc = "validate"
    /\ call.run.next <= Len(call.moves)
    /\ call.moves[call.run.next].castle
    /\ call' = Probed(call)
    /\ Within

\* The index in self._kings of the king of the team.
KingIndex(team) == CHOOSE j \in 1 .. Len(Kings) : SetUpObjects[Kings[j]].team = team

\* validate_moves takes the captured piece off, swaps and asks the king of
\* the mover's team.
ProbeBegins ==
    /\ call.pc = "validate"
    /\ call.run.next <= Len(call.moves)
    /\ ~call.moves[call.run.next].castle
    /\ call' = [call EXCEPT
                  !.pc = "check",
                  !.probed = @ \cup {call.run.next},
                  !.grid = Swap(Lifted(call.run.board, call.run.pieces,
                                       call.moves[call.run.next].captured),
                                call.run.pieces, call.piece,
                                call.moves[call.run.next].row,
                                call.moves[call.run.next].col),
                  !.king = KingIndex(pieces[call.piece].team),
                  !.sq = 1]
    /\ Within

\* King.check returns to validate_moves.
ProbeEnds ==
    /\ call.op = "select"
    /\ call.pc = "check"
    /\ call.sq > Len(ScanSquares(call))
    /\ call' = Probed(call)
    /\ Within

\* validate_moves has gone through the candidates and deleted the keys it
\* noted; choose stores the selection and returns.
SelectReturns ==
    /\ call.pc = "validate"
    /\ call.run.next > Len(call.moves)
    /\ Selected(call.piece, Filtered(call.moves, call.run))
    /\ UNCHANGED <<inventory, promoted, turn>>
    /\ Returned

\* A second click on a key of valid_moves: make_move and its first
\* update_board.
ChooseMove ==
    /\ Playing
    /\ promoted = None
    /\ chosen # None
    /\ Clickable
    /\ \E row \in RowRange, col \in ColRange :
          /\ MayClick(row, col)
          /\ HasKey(valid_moves, row, col)
          /\ call' = [NoCall EXCEPT
                        !.pc = "update",
                        !.op = "move",
                        !.piece = chosen,
                        !.moves = <<Lookup(valid_moves, row, col)>>,
                        !.now = [board |-> board, pieces |-> pieces,
                                 inventory |-> inventory, promoted |-> promoted]]
    /\ Entering

\* The update_board calls of the move that is being made.
CallUpdates(c) == Updates(c.piece, c.moves[1])

\* The grid "for king in self._kings: king.check(self)" reads in the
\* update_board call u: the captured piece removed, the swap made and the
\* en passant flag of a moved pawn set.
UpdateGrid(now, u) ==
    LET swapped == Swap(Remove(now.board, now.inventory, now.pieces, u.captured).board,
                        now.pieces, u.piece, u.row, u.col)
    IN  [board  |-> swapped.board,
         pieces |-> IF swapped.pieces[u.piece].type = "PAWN"
                    THEN [swapped.pieces EXCEPT
                            ![u.piece].en_passant =
                                EnPassant(swapped.board, swapped.pieces, u.piece)]
                    ELSE swapped.pieces]

\* update_board reaches "for king in self._kings".
UpdateBegins ==
    /\ call.pc = "update"
    /\ call.u <= Len(CallUpdates(call))
    /\ call' = [call EXCEPT !.pc = "check",
                            !.grid = UpdateGrid(call.now, CallUpdates(call)[call.u]),
                            !.king = 1,
                            !.sq = 1]
    /\ Within

\* King.check returns to update_board, which asks the next king.
NextKing ==
    /\ call.op = "move"
    /\ call.pc = "check"
    /\ call.sq > Len(ScanSquares(call))
    /\ call.king < Len(Kings)
    /\ call' = [call EXCEPT !.king = @ + 1, !.sq = 1]
    /\ Within

\* King.check of the last king returns and update_board returns to
\* make_move.
UpdateEnds ==
    /\ call.op = "move"
    /\ call.pc = "check"
    /\ call.sq > Len(ScanSquares(call))
    /\ call.king = Len(Kings)
    /\ call' = [call EXCEPT
                  !.pc = "update",
                  !.now = UpdateBoard(call.now.board, call.now.pieces, call.now.inventory,
                                      call.now.promoted,
                                      CallUpdates(call)[call.u].piece,
                                      CallUpdates(call)[call.u].row,
                                      CallUpdates(call)[call.u].col,
                                      CallUpdates(call)[call.u].captured),
                  !.u = @ + 1]
    /\ Within

\* make_move empties the selection, calls update_turn and returns.
MoveReturns ==
    /\ call.pc = "update"
    /\ call.u > Len(CallUpdates(call))
    /\ UpdateTurn(call.now)
    /\ chosen' = None
    /\ valid_moves' = <<>>
    /\ Returned

\* The branches of choose that call nothing that loops.
ChoosePromote == Playing /\ Promote
ChooseRejectPending == Playing /\ RejectPending
ChooseRejectMove == Playing /\ RejectMove
ChooseInvalid == Playing /\ InvalidChoice

\* A step inside a call of choose.
CallStep ==
    \/ WalkOn
    \/ NextCall
    \/ LastCall
    \/ RawMoves
    \/ EnemyMoves
    \/ Scan
    \/ PassOver
    \/ ProbeBegins
    \/ ProbeEnds
    \/ SelectReturns
    \/ UpdateBegins
    \/ NextKing
    \/ UpdateEnds
    \/ MoveReturns

NextChoose ==
    \/ ChooseSelect
    \/ ChooseMove
    \/ ChoosePromote
    \/ ChooseRejectPending
    \/ ChooseRejectMove
    \/ ChooseInvalid
    \/ CallStep

\* The states of a running call in which CallStep has a step: the guards of
\* its actions, by the place the call is at.
CanStep ==
    \/ /\ call.pc = "get_moves"
       /\ \/ call.depth = 0
          \/ call.k <= Len(MoveCalls(call.grid.pieces, call.who))
    \/ /\ call.pc = "check"
       /\ \/ call.sq <= Len(ScanSquares(call))
          \/ call.op = "select"
          \/ call.op = "move" /\ call.king <= Len(Kings)
    \/ call.pc = "validate"
    \/ call.pc = "update"

\* The interpreter makes a step: every step of CallStep is one, and the
\* two are enabled in the same states.
Stepping == CanStep /\ beat' = ~beat

\* The openings whose calls are followed step by step have at most this
\* many moves: the castling game is the longest of them.
MaxOpening == 14

InitChoose == Init /\ Len(Games[game]) <= MaxOpening

\* The interpreter runs a call that has begun: no other code is scheduled
\* before it returns.
SpecChoose == InitChoose /\ [][NextChoose]_vars /\ WF_beat(Stepping)

(***************************************************************************)
(* Properties                                                              *)
(***************************************************************************)
Teams == {PLAYER_WHITE, PLAYER_BLACK}

KingOf(team) == IF team = PLAYER_BLACK THEN BlackKingId ELSE WhiteKingId

CastleEntries(moves) == {e \in Entries(moves) : e.castle}

\* The kings that stand on the grid.
KingsOnBoard == {Kings[j] : j \in 1 .. Len(Kings)} \cap OnBoard(board)

\* The king is attacked on the grid `at`.
AttackedAt(at, king) == Attacked(at.board, at.pieces, king)

\* An enemy piece attacks the square (row, col) the king would stand on.
SquareAttacked(king, row, col) == AttackedAt(Swap(board, pieces, king, row, col), king)

\* The columns strictly between two columns of a rank.
Between(col1, col2) ==
    {c \in ColRange : (col1 < c /\ c < col2) \/ (col2 < c /\ c < col1)}

\* The corner column of the rook a castle entry names.
Corner(e) == IF e.pos[2] = 3 THEN 0 ELSE 7

\* validate_moves has left the grid and every stored square as they are.
Restores(done) ==
    /\ done.board = board
    /\ \A p \in DOMAIN pieces :
          /\ done.pieces[p].row = pieces[p].row
          /\ done.pieces[p].col = pieces[p].col

\* C1: for every piece on the grid, validate_moves on the moves its
\* get_moves produces leaves the grid and every piece's stored (row, col)
\* exactly as they were before the call.
C1_ValidateRestores ==
    \A id \in OnBoard(board) : Restores(LegalMoves(board, pieces, id))

\* The king of the mover's team is not attacked once the move e is made:
\* the captured piece removed and the mover on its destination.
SafeAfter(piece, e) ==
    ~AttackedAt(Swap(Remove(board, inventory, pieces, e.captured).board,
                     pieces, piece, e.row, e.col),
                KingOf(pieces[piece].team))

\* kept holds exactly the non-castle destinations of raw that leave the king safe.
KeepsSafe(piece, raw, kept) ==
    \A i \in 1 .. Len(raw) :
        ~raw[i].castle =>
            (HasKey(kept, raw[i].row, raw[i].col) <=> SafeAfter(piece, raw[i]))

\* C2: whenever a piece may be selected, validate_moves keeps a non-castle
\* destination of the piece's moves if and only if making that move leaves
\* the king of the mover's team not attacked by any enemy piece.
C2_FilterKeepsSafe ==
    (promoted = None /\ chosen = None) =>
        \A id \in OnBoard(board) :
            pieces[id].team = turn =>
                KeepsSafe(id, GetMoves(board, pieces, id),
                          LegalMoves(board, pieces, id).moves)

\* The squares of the grid that hold a king of the team.
KingSquares(team) ==
    {sq \in RowRange \X ColRange :
        /\ board[sq[1]][sq[2]] # None
        /\ pieces[board[sq[1]][sq[2]]].type = "KING"
        /\ pieces[board[sq[1]][sq[2]]].team = team}

\* C3: in every reachable state each team has exactly one king on the grid.
C3_OneKingEach == \A team \in Teams : Cardinality(KingSquares(team)) = 1

\* C4: in every reachable state every piece held in grid cell (r, c) has
\* the stored position (r, c).
C4_StoredIsGrid ==
    \A row \in RowRange, col \in ColRange :
        board[row][col] # None =>
            /\ pieces[board[row][col]].row = row
            /\ pieces[board[row][col]].col = col

\* C5: King.get_moves generates a castle descriptor toward a rook only when
\* every square strictly between the king and that rook's corner is empty.
C5_CastleOverEmptySquares ==
    \A king \in KingsOnBoard :
        \A e \in CastleEntries(KingGetMoves(board, pieces, king)) :
            \A c \in Between(pieces[king].col, Corner(e)) :
                board[pieces[king].row][c] = None

\* The columns the king passes through and lands on, from its column to col.
KingPath(from, col) ==
    {c \in ColRange : (from < c /\ c <= col) \/ (col <= c /\ c < from)}

\* C6: a castle destination is in the legal move set of the chosen king
\* only when no square the king passes through or lands on is attacked by an
\* enemy piece.
C6_CastleNotThroughAttack ==
    chosen # None =>
        \A e \in CastleEntries(valid_moves) :
            \A c \in KingPath(pieces[chosen].col, e.col) :
                ~SquareAttacked(chosen, pieces[chosen].row, c)

\* C7: every castle descriptor King.get_moves generates names a rook of the
\* king's team that has never completed a move (update_board ends every move
\* of a piece with not_first, which clears first_turn).
C7_CastleWithUnmovedRook ==
    \A king \in KingsOnBoard :
        \A e \in CastleEntries(KingGetMoves(board, pieces, king)) :
            /\ pieces[e.rook].type = "ROOK"
            /\ pieces[e.rook].team = pieces[king].team
            /\ pieces[e.rook].first_turn

\* A confirmed move of the king marks it as moved, and a moved king stays
\* moved.
MovedKingStep(king) ==
    /\ (chosen = king /\ turn' # turn) => ~pieces'[king].first_turn
    /\ ~pieces[king].first_turn => ~pieces'[king].first_turn

\* get_moves of a moved king holds no castle descriptor.
MovedKingHasNoCastle(king) ==
    ~pieces[king].first_turn => CastleEntries(KingGetMoves(board, pieces, king)) = {}

\* C8: once a king has completed a confirmed move, an ordinary one or a
\* castle, no castle descriptor is generated for it in any later state, even
\* when it is back on its starting square.
C8_MovedKingNeverCastles ==
    /\ [](\A king \in KingsOnBoard : MovedKingHasNoCastle(king))
    /\ [][\A j \in 1 .. Len(Kings) : MovedKingStep(Kings[j])]_vars

\* The white king has moved and is back on e1 beside the empty f1 and g1 and
\* the unmoved rook on h1; it is chosen and its moves hold no castle.
C8_Witness ==
    /\ chosen = WhiteKingId
    /\ ~pieces[WhiteKingId].first_turn
    /\ board[7][4] = WhiteKingId
    /\ board[7][5] = None
    /\ board[7][6] = None
    /\ board[7][7] = InitialId(7, 7)
    /\ pieces[InitialId(7, 7)].first_turn
    /\ CastleEntries(valid_moves) = {}

\* The king and the rook on the corner have never moved and the squares
\* between them are empty and unattacked.
CanCastle(king, corner) ==
    /\ board[pieces[king].row][pieces[king].col] = king
    /\ pieces[king].first_turn
    /\ board[pieces[king].row][corner] # None
    /\ pieces[board[pieces[king].row][corner]].type = "ROOK"
    /\ pieces[board[pieces[king].row][corner]].team = pieces[king].team
    /\ pieces[board[pieces[king].row][corner]].first_turn
    /\ \A c \in Between(pieces[king].col, corner) :
          /\ board[pieces[king].row][c] = None
          /\ ~SquareAttacked(king, pieces[king].row, c)

KingDestination(corner) == IF corner = 7 THEN 6 ELSE 2

RookDestination(corner) == IF corner = 7 THEN 5 ELSE 3

\* The castle descriptors of the king's moves toward the corner.
CastlesToward(king, corner) ==
    {e \in CastleEntries(KingGetMoves(board, pieces, king)) :
        (e.col > pieces[king].col) = (corner > pieces[king].col)}

\* The one castle descriptor toward the corner.
CastleOffered(king, corner) ==
    CanCastle(king, corner) =>
        CastlesToward(king, corner) =
            {CastleEntry(pieces[king].row, KingDestination(corner),
                         board[pieces[king].row][corner],
                         <<pieces[king].row, RookDestination(corner)>>)}

\* The step that confirms the castle of the chosen king toward the corner.
CastleMade(king, corner, rook, row) ==
    (/\ chosen = king
     /\ turn' # turn
     /\ pieces'[king].col = KingDestination(corner)
     /\ CanCastle(king, corner))
    =>
    (/\ board'[row][KingDestination(corner)] = king
     /\ pieces'[king].row = row
     /\ board'[row][RookDestination(corner)] = rook
     /\ pieces'[rook].row = row
     /\ pieces'[rook].col = RookDestination(corner)
     /\ board'[row][pieces[king].col] = None
     /\ board'[row][corner] = None
     /\ ~pieces'[king].first_turn
     /\ ~pieces'[rook].first_turn
     /\ turn' = Opponent(turn)
     /\ chosen' = None)

\* C9: an unmoved king beside an unmoved rook of its team on the corner,
\* with the squares between them empty and unattacked, has exactly one castle
\* descriptor for that side (king to column 6 and rook to column 5, or king
\* to column 2 and rook to column 3); confirming it puts the king and the
\* rook on these squares, empties both origin squares, marks both as moved
\* and passes the turn once.
C9_CastleOfferedAndMade ==
    /\ [](\A king \in KingsOnBoard, corner \in {0, 7} : CastleOffered(king, corner))
    /\ [][\A king \in KingsOnBoard, corner \in {0, 7} :
             CastleMade(king, corner, board[pieces[king].row][corner],
                        pieces[king].row)]_vars

\* White, free to castle on either side, has castled on the king's side and
\* Black is to move: the king on g1 is not attacked, the rook stands on f1,
\* e1 and h1 are empty.
C9_Witness ==
    /\ turn = PLAYER_BLACK
    /\ board[7][0] = InitialId(7, 0)
    /\ pieces[InitialId(7, 0)].first_turn
    /\ board[7][1] = None
    /\ board[7][2] = None
    /\ board[7][3] = None
    /\ board[7][6] = WhiteKingId
    /\ board[7][5] = InitialId(7, 7)
    /\ board[7][4] = None
    /\ board[7][7] = None
    /\ ~pieces[WhiteKingId].first_turn
    /\ ~pieces[InitialId(7, 7)].first_turn
    /\ ~Attacked(board, pieces, WhiteKingId)
    /\ ~SquareAttacked(WhiteKingId, 7, 5)

\* The pawns on the grid whose en passant flag is set.
FlaggedPawns ==
    {id \in OnBoard(board) : pieces[id].type = "PAWN" /\ pieces[id].en_passant}

\* The flag of a pawn is set only while the other team is on turn.
FlagWindow == \A id \in FlaggedPawns : pieces[id].team # turn

\* The entries of a move set that capture a piece off their empty destination.
EnPassantEntries(moves) ==
    {e \in Entries(moves) :
        ~e.castle /\ e.captured # None /\ board[e.row][e.col] = None}

\* An en passant capture is offered only of a flagged pawn of the other team.
OfferedInWindow ==
    chosen # None =>
        \A e \in EnPassantEntries(valid_moves) :
            /\ e.captured \in FlaggedPawns
            /\ pieces[e.captured].team # turn

\* The flag is set only by the pawn's own double step.
FlagSetByDoubleStep ==
    \A id \in DOMAIN pieces :
        (/\ pieces[id].type = "PAWN"
         /\ ~pieces[id].en_passant
         /\ pieces'[id].en_passant)
        =>
        (/\ chosen = id
         /\ turn = pieces[id].team
         /\ turn' # turn
         /\ pieces'[id].col = pieces[id].col
         /\ pieces'[id].row - pieces[id].row \in {-2, 2})

\* C10: the en passant flag a pawn's double step sets is true only during
\* the opponent's following turn: the flag is set by the double step alone,
\* it is false whenever the pawn's own team is on turn, and an en passant
\* capture is in a legal move set only of a pawn flagged in that turn.
C10_EnPassantWindow ==
    /\ [](FlagWindow /\ OfferedInWindow)
    /\ [][FlagSetByDoubleStep]_vars

\* White let the capture of the pawn on d5 pass; a turn later the pawn on
\* e5 is chosen beside it and the flag of the pawn on d5 is down.
C10_Witness ==
    /\ turn = PLAYER_WHITE
    /\ chosen = InitialId(6, 4)
    /\ board[3][4] = InitialId(6, 4)
    /\ board[3][3] = InitialId(1, 3)
    /\ pieces[InitialId(1, 3)].type = "PAWN"
    /\ ~pieces[InitialId(1, 3)].first_turn
    /\ ~pieces[InitialId(1, 3)].en_passant
    /\ EnPassantEntries(valid_moves) = {}

\* The pending pawn stands on the last rank of its march, on the grid.
PendingIsLandedPawn ==
    promoted # None =>
        /\ pieces[promoted].type = "PAWN"
        /\ pieces[promoted].row \in {0, 7}
        /\ board[pieces[promoted].row][pieces[promoted].col] = promoted

\* A confirmed move that lands a pawn on row 0 or row 7 fills the slot with
\* that pawn.
LandingFillsSlot ==
    (/\ chosen # None
     /\ turn' # turn
     /\ pieces[chosen].type = "PAWN"
     /\ pieces'[chosen].row \in {0, 7})
    => promoted' = chosen

\* The slot is filled by no other step.
SlotFilledByLanding ==
    (promoted' # None /\ promoted' # promoted)
    =>
    (/\ chosen # None
     /\ promoted' = chosen
     /\ turn' # turn
     /\ pieces[chosen].type = "PAWN"
     /\ pieces'[chosen].row \in {0, 7}
     /\ board'[pieces'[chosen].row][pieces'[chosen].col] = chosen)

\* The click on a kind: a new piece of that kind and of the pawn's team
\* stands where the pawn stood, the rest of the grid is as it was and the slot
\* is empty.
ChoiceReplacesPawn ==
    (promoted # None /\ <<board, pieces, inventory, promoted>>' # <<board, pieces, inventory, promoted>>)
    =>
    (/\ promoted' = None
     /\ board' = board
     /\ \E col \in 2 .. 5 :
           pieces' = [pieces EXCEPT ![promoted] =
                         NewPiece(PromotionChoice(col), pieces[promoted].team,
                                  pieces[promoted].row, pieces[promoted].col)]
     /\ turn' = turn)

\* C11: a confirmed move that lands a pawn on row 0 or row 7 leaves that pawn
\* in the pending-promotion slot and no other step fills the slot; the choice
\* of a kind while it is pending puts a newly constructed queen, knight, rook
\* or bishop of the pawn's team on the pawn's square and empties the slot.
C11_PromotionSlot ==
    /\ []PendingIsLandedPawn
    /\ [][LandingFillsSlot /\ SlotFilledByLanding /\ ChoiceReplacesPawn]_vars

\* The white a-pawn has taken on a8 and a knight was chosen for it.
C11_Witness ==
    /\ promoted = None
    /\ board[0][0] = InitialId(6, 0)
    /\ pieces[InitialId(6, 0)] = NewPiece("KNIGHT", PLAYER_WHITE, 0, 0)
    /\ turn = PLAYER_BLACK

\* The next click is one of the opening, and the square it is made on.
Scripted == clicks < Len(Script[game])

NextClick == Script[game][clicks + 1]

\* The promotion-choice region: row 3, columns 2 to 5.
InChoiceRegion(sq) == sq[1] = 3 /\ 2 <= sq[2] /\ sq[2] <= 5

\* A click outside the region while a promotion is pending changes nothing.
PendingRejects ==
    (promoted # None /\ Scripted /\ ~InChoiceRegion(NextClick)) => UNCHANGED state

\* While a promotion is pending no piece is selected or moved: a step leaves
\* turn and selection alone, and changes the rest only to resolve the promotion.
PendingBlocks ==
    promoted # None =>
        /\ UNCHANGED <<turn, chosen, valid_moves>>
        /\ (UNCHANGED state \/ promoted' = None)

\* C12: while a promotion is pending, a click outside the promotion-choice
\* region (row 3, columns 2 to 5) changes nothing: grid, turn, selection,
\* piece flags, inventory and the pending slot stay as they were, and no piece
\* is selected or moved until the promotion is resolved.
C12_PendingRejectsClicks == [][PendingRejects /\ PendingBlocks]_vars

\* The five clicks beside the choices are made and the pawn still waits on a8.
C12_Witness ==
    /\ Games[game] = GamePromotionRefused
    /\ clicks = Len(Script[game])
    /\ promoted = InitialId(6, 0)
    /\ pieces[promoted].type = "PAWN"
    /\ chosen = None
    /\ turn = PLAYER_BLACK

\* An enemy piece on the grid has a capture of the king in its raw moves.
RawCaptureOf(king) ==
    \E id \in OnBoard(board) :
        /\ pieces[id].team # pieces[king].team
        /\ Threatens(GetMoves(board, pieces, id), king)

\* C13: King.check returns true if and only if the raw move set of at least
\* one enemy piece on the grid holds a capture of that king, whatever the
\* king's check flag was before the call.
C13_CheckIsRawCapture ==
    \A king \in KingsOnBoard, flag \in BOOLEAN :
        KingCheck(board, Checked(pieces, king, flag), king) <=> RawCaptureOf(king)

\* The team's king is in check and no piece of the team has a move left
\* after the legality filter.
InCheckWithoutMoves(team) ==
    /\ Attacked(board, pieces, KingOf(team))
    /\ \A id \in OnBoard(board) :
          pieces[id].team = team => LegalMoves(board, pieces, id).moves = <<>>

\* The status is the win of the other team exactly for such a team.
WonExactlyWhenMated(winner) ==
    \A team \in Teams : winner = Opponent(team) <=> InCheckWithoutMoves(team)

\* No click is handled once a winner is reported.
WonStops == GetWinner(board, pieces) # UNFINISHED => UNCHANGED <<state, clicks>>

\* C14: the status is the win of the opponent of team T exactly when T's
\* king is in check and no piece of T has a legality-filtered move, and
\* unfinished otherwise, so that one legal escape ends the report; once a
\* winner is reported no click changes the state.
C14_WinnerExactlyWhenMated ==
    /\ []WonExactlyWhenMated(GetWinner(board, pieces))
    /\ [][WonStops]_vars

\* The black queen stands on h4 after 1. f3 e5 2. g4 and Black has won.
C14_Witness ==
    /\ board[4][7] = InitialId(0, 3)
    /\ board[4][6] = InitialId(6, 6)
    /\ board[5][5] = InitialId(6, 5)
    /\ turn = PLAYER_WHITE
    /\ GetWinner(board, pieces) = PLAYER_BLACK

\* The square is on the board and holds no piece of the team.
FreeFor(team, row, col) ==
    /\ row \in RowRange
    /\ col \in ColRange
    /\ board[row][col] # None => pieces[board[row][col]].team # team

\* C15: for every piece on the grid, every destination its get_moves returns,
\* the castle destinations of a king and the rook's destination of a castle
\* among them, lies in rows 0 to 7 and columns 0 to 7 and holds no piece of
\* the mover's team.
C15_DestinationsFree ==
    \A id \in OnBoard(board) :
        \A e \in Entries(GetMoves(board, pieces, id)) :
            /\ FreeFor(pieces[id].team, e.row, e.col)
            /\ e.castle => FreeFor(pieces[id].team, e.pos[1], e.pos[2])

\* The white king is chosen with a castle to either side among its moves.
C15_Witness ==
    /\ chosen = WhiteKingId
    /\ Cardinality(CastleEntries(valid_moves)) = 2
    /\ \A e \in CastleEntries(valid_moves) :
          board[e.row][e.col] = None /\ board[e.pos[1]][e.pos[2]] = None

\* The direction vectors of the sliding kinds.
Orthogonals == {<<-1, 0>>, <<1, 0>>, <<0, -1>>, <<0, 1>>}

Diagonals == {<<-1, -1>>, <<-1, 1>>, <<1, -1>>, <<1, 1>>}

Directions(type) ==
    CASE type = "ROOK" -> Orthogonals
      [] type = "BISHOP" -> Diagonals
      [] type = "QUEEN" -> Orthogonals \cup Diagonals

\* The k-th square from (row, col) along d is on the board and every square
\* before it is empty.
Reached(row, col, d, k) ==
    /\ row + k * d[1] \in RowRange
    /\ col + k * d[2] \in ColRange
    /\ \A j \in 1 .. k - 1 : board[row + j * d[1]][col + j * d[2]] = None

\* The walk of a piece of the team from (row, col): the empty squares up to
\* the first occupied square or the edge, and that square as a capture when
\* it holds an enemy piece.
Walk(team, row, col, directions) ==
    {Plain(row + k * d[1], col + k * d[2], board[row + k * d[1]][col + k * d[2]]) :
        <<d, k>> \in {dk \in directions \X (1 .. 7) :
                        /\ Reached(row, col, dk[1], dk[2])
                        /\ FreeFor(team, row + dk[2] * dk[1][1], col + dk[2] * dk[1][2])}}

\* The rooks, bishops and queens on the grid.
Sliders == {id \in OnBoard(board) : pieces[id].type \in {"ROOK", "BISHOP", "QUEEN"}}

\* C16: the raw move set of a rook, bishop or queen is exactly, for each
\* direction vector of its kind, the empty squares reached one step at a time
\* from the piece until the first occupied square or the edge of the board,
\* and that first occupied square as a capture when it holds an enemy piece.
C16_SlidingWalks ==
    \A row \in RowRange, col \in ColRange :
        board[row][col] \in Sliders =>
            LET id == board[row][col]
                moves == GetMoves(board, pieces, id)
                walk == Walk(pieces[id].team, row, col, Directions(pieces[id].type))
            IN  /\ Entries(moves) = walk
                /\ Len(moves) = Cardinality(walk)

(***************************************************************************)
(* C17: the forward steps of a pawn                                        *)
(***************************************************************************)
\* The direction a team's pawns walk in, and the rank they start on.
Forward(team) == IF team = PLAYER_WHITE THEN -1 ELSE 1

HomeRank(team) == IF team = PLAYER_WHITE THEN 6 ELSE 1

\* The raw moves of the pawn standing on <<row, col>> that stay in its
\* column, each with the number of squares it goes forward.
ForwardSteps(row, col) ==
    LET id == board[row][col]
        moves == GetMoves(board, pieces, id)
    IN  {<<e, (e.row - row) * Forward(pieces[id].team)>> :
            e \in {m \in Entries(moves) : m.col = col}}

ForwardStepsAllowed(row, col) ==
    LET team == pieces[board[row][col]].team IN
    \A s \in ForwardSteps(row, col) :
        /\ s[2] < 3
        /\ s[2] = 1 => /\ board[s[1].row][col] = None
                       /\ s[1].captured = None
        /\ s[2] = 2 => /\ row = HomeRank(team)
                       /\ pieces[board[row][col]].first_turn
                       /\ board[row + Forward(team)][col] = None
                       /\ board[s[1].row][col] = None
                       /\ s[1].captured = None

\* The board as set up, nothing moved.
AsSetUp == board = SetUpBoard /\ pieces = SetUpObjects

\* C17: a pawn's raw move set holds a one-square forward step only onto an
\* empty square and never as a capture, a two-square forward step only if
\* the pawn has never moved and the square passed and the destination are
\* both empty, and never a forward step of three or more squares; on the
\* board as set up the white pawn on (6, 4) may legally go to (4, 4), with
\* no capture.
C17_PawnForwardSteps ==
    /\ \A row \in RowRange, col \in ColRange :
          (board[row][col] # None /\ pieces[board[row][col]].type = "PAWN")
              => ForwardStepsAllowed(row, col)
    /\ AsSetUp =>
          Plain(4, 4, None) \in Entries(LegalMoves(board, pieces, InitialId(6, 4)).moves)

\* The white pawn of (6, 4) is chosen on the board as set up, with its one
\* and two square steps offered, while the black pawn of (1, 3) is offered
\* nothing three squares ahead.
C17_Witness ==
    /\ AsSetUp
    /\ chosen = InitialId(6, 4)
    /\ Entries(valid_moves) = {Plain(5, 4, None), Plain(4, 4, None)}
    /\ \A e \in Entries(GetMoves(board, pieces, InitialId(1, 3))) : e.row # 4

(***************************************************************************)
(* C18: validate_moves run twice                                           *)
(***************************************************************************)
\* validate_moves run once more on a piece and the dictionary a first run
\* left, on the grid and the objects that run left.
Rerun(first, piece) == ValidateMoves(first.board, first.pieces, piece, first.moves)

Idempotent(first, piece) == Rerun(first, piece).moves = first.moves

\* The first run Game.choose made for the chosen piece: its result is
\* valid_moves, and the grid and objects it left are those of the state.
ChosenRun == [board |-> board, pieces |-> pieces, moves |-> valid_moves]

NotOwn(sq) == board[sq[1]][sq[2]] = None \/ pieces[board[sq[1]][sq[2]]].team # turn

\* Nothing is chosen and no promotion is pending.
Idle == promoted = None /\ chosen = None

\* The click of the opening made next is such a click: nothing changes.
IdleRejects == (Idle /\ Scripted /\ NotOwn(NextClick)) => UNCHANGED state

\* Any click made while idle either changes nothing or is the choice of a
\* piece of the team on turn: the piece is chosen, or it had no move left
\* and the valid-move set is empty.
IdleChanges ==
    Idle => \/ UNCHANGED state
            \/ chosen' # None /\ pieces[chosen'].team = turn
            \/ chosen' = None /\ valid_moves' = <<>>

\* C19: with no piece selected and no promotion pending, a click on an empty
\* square or on a piece of the team not on turn is rejected: grid, turn,
\* selection, valid-move set, piece flags, inventory and pending promotion
\* are all unchanged.
C19_InvalidChoiceRejected == [][IdleRejects /\ IdleChanges]_vars

\* After 1. e4 Black has clicked the empty d5 and the white pawn on d2: it is
\* still Black's turn, nothing is chosen and the pawns stand where they stood.
C19_Witness ==
    /\ Games[game] = GameIdleClicks
    /\ clicks = Len(Script[game])
    /\ turn = PLAYER_BLACK
    /\ Idle
    /\ valid_moves = <<>>
    /\ board = [SetUpBoard EXCEPT ![6][4] = None, ![4][4] = InitialId(6, 4)]

(***************************************************************************)
(* C20: a click on a destination the chosen piece cannot go to             *)
(***************************************************************************)
\* A piece is chosen and the click of the opening made next is not a key of
\* valid_moves: the selection is dropped and nothing else changes.
DestinationRejected ==
    (promoted = None /\ chosen # None /\ Scripted
        /\ ~HasKey(valid_moves, NextClick[1], NextClick[2]))
    => /\ chosen' = None
       /\ UNCHANGED <<board, pieces, inventory, promoted, turn>>

\* Any click made with a piece chosen drops the selection, and either makes
\* a move, after which the turn has passed, or leaves grid, objects,
\* inventory, pending slot and turn as they were.
ChosenMovesOrNothing ==
    (promoted = None /\ chosen # None)
    => /\ chosen' = None
       /\ turn' # turn \/ UNCHANGED <<board, pieces, inventory, promoted, turn>>

\* A refused destination leaves nothing chosen and valid_moves not empty.
\* The click of the opening after it is handled as Game.choose handles a
\* first click: refused on a square without a piece of the team on turn,
\* else the choice of the piece on that square with the moves left to it.
FreshSelection ==
    (Idle /\ valid_moves # <<>> /\ Scripted)
    => IF NotOwn(NextClick) THEN UNCHANGED state
       ELSE LET piece == board[NextClick[1]][NextClick[2]]
                legal == LegalMoves(board, pieces, piece)
            IN  /\ valid_moves' = legal.moves
                /\ chosen' = IF legal.moves = <<>> THEN None ELSE piece
                /\ UNCHANGED <<inventory, promoted, turn>>

\* C20: with a piece selected, a click on a destination that is not in its
\* legal move set is rejected: the grid, every piece's position and flags,
\* the inventory, the pending-promotion slot and the turn are unchanged (the
\* turn does not pass), the selection is cleared, and the next click is
\* handled as a fresh selection.
C20_IllegalDestinationRejected ==
    [][DestinationRejected /\ ChosenMovesOrNothing /\ FreshSelection]_vars

\* The three refused destinations are behind: the pawn is on e4, and the
\* knight chosen afresh on f6 has taken the queen on h5.
C20_Witness ==
    /\ Games[game] = GameRejectedMoves
    /\ clicks = Len(Script[game])
    /\ board[4][4] = InitialId(6, 4)
    /\ board[1][4] = InitialId(1, 4)
    /\ board[3][7] = InitialId(0, 6)
    /\ InitialId(7, 3) \notin OnBoard(board)
    /\ turn = PLAYER_WHITE
    /\ chosen = None

(***************************************************************************)
(* C21: Game.reset                                                         *)
(***************************************************************************)
\* The kinds of a back rank from column 0 to column 7.
StandardRank == <<"ROOK", "KNIGHT", "BISHOP", "QUEEN", "KING", "BISHOP", "KNIGHT", "ROOK">>

\* The piece on (row, col) is an object of its own, of the given kind and
\* team, that records (row, col), has not moved and has no flag set.
FreshOn(row, col, type, team) ==
    /\ board[row][col] # None
    /\ pieces[board[row][col]] =
          [type |-> type, team |-> team, row |-> row, col |-> col,
           first_turn |-> TRUE, en_passant |-> FALSE, check |-> FALSE]
    /\ \A r \in RowRange, c \in ColRange :
          board[r][c] = board[row][col] => <<r, c>> = <<row, col>>

\* The state of a new game.
StandardStart ==
    /\ \A col \in ColRange :
          /\ FreshOn(0, col, StandardRank[col + 1], PLAYER_BLACK)
          /\ FreshOn(1, col, "PAWN", PLAYER_BLACK)
          /\ FreshOn(6, col, "PAWN", PLAYER_WHITE)
          /\ FreshOn(7, col, StandardRank[col + 1], PLAYER_WHITE)
          /\ \A row \in 2 .. 5 : board[row][col] = None
    /\ \A team \in {PLAYER_WHITE, PLAYER_BLACK} :
          /\ inventory[<<team, "PAWN">>] = 8
          /\ \A type \in {"ROOK", "KNIGHT", "BISHOP"} : inventory[<<team, type>>] = 2
          /\ \A type \in {"QUEEN", "KING"} : inventory[<<team, type>>] = 1
    /\ turn = PLAYER_WHITE
    /\ chosen = None
    /\ valid_moves = <<>>
    /\ promoted = None

\* C21: Game.reset from any reachable state (mid-selection, promotion
\* pending, game won) yields exactly the initial state: the standard layout
\* with black on rows 0-1 and white on rows 6-7, every piece unmoved, no
\* en-passant or check flag set, full inventory, white to move, nothing
\* selected and no promotion pending.
C21_ResetYieldsStart == [][resets' # resets => StandardStart']_vars

\* Fool's mate has been played to the end and the game reset: the board of
\* a new game, with the opening behind.
C21_Witness ==
    /\ Games[game] = GameFoolsMate
    /\ resets = 1
    /\ clicks = Len(Script[game])
    /\ StandardStart

(***************************************************************************)
(* C22: the cached in-check flags after a mutation of the grid             *)
(***************************************************************************)
\* The step is a confirmed move (plain, capture, en passant or castle).
MoveConfirmed == promoted = None /\ chosen # None /\ turn' # turn

\* The step resolves a pending promotion.
PromotionResolved == promoted # None /\ promoted' = None

\* C22: after every completed mutation of the grid (a confirmed move,
\* capture, en-passant capture, castle, or the resolution of a promotion),
\* each king's cached in-check flag equals whether that king is attacked on
\* the resulting grid.
C22_FlagsFollowGrid ==
    [][(MoveConfirmed \/ PromotionResolved) =>
          \A j \in 1 .. Len(Kings) :
              Kings[j] \in OnBoard(board') =>
                  (pieces'[Kings[j]].check <=> Attacked(board', pieces', Kings[j]))]_vars

(***************************************************************************)
(* C23: what validate_moves leaves alone                                   *)
(***************************************************************************)
\* The flags of every object are those it had.
FlagsKept ==
    \A id \in DOMAIN pieces :
        /\ pieces'[id].first_turn = pieces[id].first_turn
        /\ pieces'[id].en_passant = pieces[id].en_passant
        /\ pieces'[id].check = pieces[id].check

\* C23: Board.validate_moves has no side effect besides removing unsafe keys
\* from the candidate set: it leaves every piece's has-moved flag, every
\* pawn's en-passant flag, every king's cached in-check flag, the inventory
\* counts and the pending-promotion slot as they were before the call.
\* With nothing chosen and no promotion pending, a click either changes
\* nothing or is a first click on a piece of the team on turn, which calls
\* get_moves and validate_moves and assigns only the selection.
C23_ValidateKeepsFlags ==
    [][Idle => FlagsKept /\ UNCHANGED <<inventory, promoted>>]_vars

(***************************************************************************)
(* C24: the inventory and the grid                                         *)
(***************************************************************************)
\* The squares of the grid that hold a piece of the team and kind.
SquaresOf(team, type) ==
    {sq \in RowRange \X ColRange :
        /\ board[sq[1]][sq[2]] # None
        /\ pieces[board[sq[1]][sq[2]]].team = team
        /\ pieces[board[sq[1]][sq[2]]].type = type}

\* C24: in every reachable state, the inventory count for each (team, kind)
\* equals the number of pieces of that team and kind currently on the grid:
\* it decreases by one for the captured piece's key on each capture and is
\* adjusted on promotion so that both the pawn count and the promoted kind's
\* count stay equal to what is on the board.
C24_InventoryIsGrid ==
    \A key \in DOMAIN inventory :
        inventory[key] = Cardinality(SquaresOf(key[1], key[2]))

(***************************************************************************)
(* C25: when a move sets the en passant flag                               *)
(***************************************************************************)
\* The chosen piece is a pawn that has not moved and advances two squares in
\* its column onto row 3 or 4.
FirstDoubleStep ==
    /\ pieces[chosen].type = "PAWN"
    /\ pieces[chosen].first_turn
    /\ pieces'[chosen].col = pieces[chosen].col
    /\ Abs(pieces'[chosen].row - pieces[chosen].row) = 2
    /\ pieces'[chosen].row \in {3, 4}

\* After the move a pawn of the other team stands immediately to the left
\* or right of the chosen piece, on its row.
EnemyPawnBeside ==
    \E col \in {pieces'[chosen].col - 1, pieces'[chosen].col + 1} \cap ColRange :
        LET beside == board'[pieces'[chosen].row][col]
        IN  /\ beside # None
            /\ pieces'[beside].type = "PAWN"
            /\ pieces'[beside].team # pieces'[chosen].team

\* The flag of the moved piece is up exactly after such a step, and no flag
\* of another piece goes up.
FlagFollowsStep ==
    /\ pieces'[chosen].en_passant <=> (FirstDoubleStep /\ EnemyPawnBeside)
    /\ \A id \in DOMAIN pieces \ {chosen} :
           pieces'[id].en_passant => pieces[id].en_passant

\* C25: after a confirmed move, the moved pawn's en-passant flag is set if
\* and only if the move was that pawn's first move, it was a two-square
\* advance landing on row 3 or 4, and an enemy pawn stands immediately to its
\* left or right on that row; no move of any other kind sets an en-passant
\* flag on any piece.
C25_FlagIffDoubleStepBesidePawn ==
    [][MoveConfirmed => FlagFollowsStep]_vars

\* Black's d pawn has just made its double step to d5 beside the white pawn
\* on e5 and carries the flag.
C25_Witness ==
    /\ turn = PLAYER_WHITE
    /\ chosen = None
    /\ board[3][3] = InitialId(1, 3)
    /\ board[3][4] = InitialId(6, 4)
    /\ pieces[InitialId(1, 3)].type = "PAWN"
    /\ pieces[InitialId(6, 4)].type = "PAWN"
    /\ pieces[InitialId(1, 3)].en_passant
    /\ ~pieces[InitialId(1, 3)].first_turn

(***************************************************************************)
(* C26: the en passant capture on the grid                                 *)
(***************************************************************************)
\* The confirmed move takes the chosen pawn diagonally onto an empty square.
EnPassantStep ==
    /\ MoveConfirmed
    /\ pieces[chosen].type = "PAWN"
    /\ pieces'[chosen].col # pieces[chosen].col
    /\ board[pieces'[chosen].row][pieces'[chosen].col] = None

\* The grid after the capture: the pawn on its destination, its origin and
\* the square on its origin rank in the destination's column empty, every
\* other square as it was; the pawn that stood there is counted out.
EnPassantEffect ==
    LET from == <<pieces[chosen].row, pieces[chosen].col>>
        to == <<pieces'[chosen].row, pieces'[chosen].col>>
        taken == <<from[1], to[2]>>
        captured == board[taken[1]][taken[2]]
    IN  /\ Abs(to[1] - from[1]) = 1
        /\ Abs(to[2] - from[2]) = 1
        /\ taken # to
        /\ captured # None
        /\ pieces[captured].type = "PAWN"
        /\ board' = [row \in RowRange |-> [col \in ColRange |->
                        IF <<row, col>> = to THEN chosen
                        ELSE IF <<row, col>> \in {from, taken} THEN None
                        ELSE board[row][col]]]
        /\ inventory' = [inventory EXCEPT ![<<pieces[captured].team, "PAWN">>] = @ - 1]

\* C26: confirming an en-passant capture moves the capturing pawn diagonally
\* onto the empty destination square and empties the captured pawn's square,
\* which is on the capturing pawn's origin rank and in the destination's
\* column (a square different from the destination); no other square changes
\* and the captured pawn's inventory count drops by one.
C26_EnPassantCapture ==
    [][EnPassantStep => EnPassantEffect]_vars

\* 1. e4 a6 2. e5 d5 3. exd6: the white pawn stands on d6, d5 and e5 are
\* empty and Black counts seven pawns.
C26_Witness ==
    /\ Games[game] = GameEnPassant
    /\ turn = PLAYER_BLACK
    /\ board[2][3] = InitialId(6, 4)
    /\ board[3][3] = None
    /\ board[3][4] = None
    /\ inventory[<<PLAYER_BLACK, "PAWN">>] = 7

(***************************************************************************)
(* C27: the turn                                                           *)
(***************************************************************************)
\* The objects that stand on another square after the step.
Relocated ==
    {id \in DOMAIN pieces :
        pieces'[id].row # pieces[id].row \/ pieces'[id].col # pieces[id].col}

\* A selected piece belongs to the team on turn.
ChosenOnTurn == chosen # None => pieces[chosen].team = turn

\* The turn passes only on the second click of a move, to the other team,
\* with the chosen piece relocated and the selection dropped.
TurnPassesOnMove ==
    turn' # turn =>
        /\ promoted = None
        /\ chosen # None
        /\ turn' = Opponent(turn)
        /\ chosen \in Relocated
        /\ chosen' = None

\* A second click that relocates anything relocates pieces of the team on
\* turn only, one or (in a castle) two of them, and passes the turn.
MoveIsOfTeamOnTurn ==
    (promoted = None /\ chosen # None /\ Relocated # {}) =>
        /\ \A id \in Relocated : pieces[id].team = turn
        /\ Cardinality(Relocated) \in {1, 2}
        /\ turn' = Opponent(turn)

\* A scripted second click passes the turn exactly when its square is a key
\* of the stored moves.
ScriptedDestination ==
    (Scripted /\ promoted = None /\ chosen # None) =>
        (turn' # turn <=> HasKey(valid_moves, NextClick[1], NextClick[2]))

\* A first click and a click made while a promotion is pending keep the turn.
OtherClicksKeepTurn == (chosen = None \/ promoted # None) => turn' = turn

\* C27: White moves first and the turn changes exactly once per confirmed
\* move: only a piece of the team on turn can be selected and moved, a castle
\* (which relocates two pieces) passes the turn once, a rejected click never
\* passes the turn, and resolving a pending promotion does not pass the turn
\* again.
C27_TurnPassesOncePerMove ==
    /\ turn = PLAYER_WHITE
    /\ []ChosenOnTurn
    /\ [][/\ TurnPassesOnMove
          /\ MoveIsOfTeamOnTurn
          /\ ScriptedDestination
          /\ OtherClicksKeepTurn]_vars

\* White has castled short in the open game: king on g1, rook on f1, and
\* it is Black's turn.
C27_Witness ==
    /\ Games[game] = GameCastles
    /\ board[7][6] = WhiteKingId
    /\ board[7][5] = InitialId(7, 7)
    /\ turn = PLAYER_BLACK
    /\ chosen = None
    /\ promoted = None

(***************************************************************************)
(* C28: what a move takes off the grid                                     *)
(***************************************************************************)
\* The pieces the stored moves capture.
Captures(moves) == {e.captured : e \in {x \in Entries(moves) : ~x.castle}} \ {None}

\* No move offered to the chosen piece captures a piece of the team on turn.
NoOwnCaptureOffered ==
    chosen # None => \A id \in Captures(valid_moves) : pieces[id].team # turn

\* The pieces a confirmed move takes off the grid are of the other team.
RemovedAreOpponents ==
    MoveConfirmed => \A id \in OnBoard(board) \ OnBoard(board') : pieces[id].team # turn

\* C28: every piece removed from the grid by a confirmed move belongs to the
\* opponent of the team that moved: although the en-passant test in
\* Pawn.get_moves does not compare teams, in no reachable state does a legal
\* move set offered to the team on turn contain a capture (ordinary or en
\* passant) of one of that team's own pieces.
C28_NoOwnPieceCaptured ==
    /\ []NoOwnCaptureOffered
    /\ [][RemovedAreOpponents]_vars

\* The c4 pawn is chosen with White's d4 pawn beside it, a turn after that
\* pawn's flagged double step, and d5 empty: its moves do not include d5.
C28_Witness ==
    /\ Games[game] = GameOwnPawnBeside
    /\ turn = PLAYER_WHITE
    /\ chosen = InitialId(6, 2)
    /\ board[4][2] = InitialId(6, 2)
    /\ board[4][3] = InitialId(6, 3)
    /\ board[4][4] = InitialId(1, 4)
    /\ board[3][3] = None
    /\ ~pieces[InitialId(6, 3)].en_passant
    /\ ~HasKey(valid_moves, 3, 3)
    /\ HasKey(valid_moves, 3, 2)

(***************************************************************************)
(* C29: the selection and the grid its moves were computed on              *)
(***************************************************************************)
\* The chosen piece stands on the grid where it records, is of the team on
\* turn and has a move, and no promotion is pending.
SelectionSound ==
    chosen # None =>
        /\ board[pieces[chosen].row][pieces[chosen].col] = chosen
        /\ pieces[chosen].team = turn
        /\ valid_moves # <<>>
        /\ promoted = None

\* The squares the objects record.
Positions(ps) == [id \in DOMAIN ps |-> <<ps[id].row, ps[id].col>>]

\* The click that selects a piece computes and filters its moves on the
\* grid of the state before and leaves that grid, and the square every
\* object records, to the state after.
SelectedOnCurrentGrid ==
    (chosen = None /\ chosen' # None) =>
        /\ board' = board
        /\ Positions(pieces') = Positions(pieces)

\* C29: whenever a piece is selected, it is on the grid, belongs to the team
\* on turn, its stored valid-move set is non-empty and was computed and
\* legality-filtered on exactly the current grid, and no promotion is
\* pending; hence every move applied by Game.make_move uses a descriptor
\* that is valid for the board it is applied to (no stale move set is ever
\* applied).
C29_SelectionOnCurrentGrid ==
    /\ []SelectionSound
    /\ [][SelectedOnCurrentGrid]_vars

(***************************************************************************)
(* C30: a call of Game.choose returns                                      *)
(***************************************************************************)
\* The frames of Piece.move on the stack.
MoveFrames == [i \in 1 .. call.depth |-> "move"]

\* The frames of get_moves of the piece call.who and below: King.castle
\* makes the calls of Piece.move after the king's eight steps.
GetMovesFrames ==
    IF call.grid.pieces[call.who].type = "KING" /\ call.k > Len(KingSteps) /\ call.depth > 0
    THEN <<"get_moves", "castle">> \o MoveFrames
    ELSE <<"get_moves">> \o MoveFrames

\* The call stack below main.
Frames ==
    CASE call.pc = "idle" -> <<>>
      [] call.pc = "get_moves" /\ call.king = 0 -> <<"choose">> \o GetMovesFrames
      [] call.pc = "validate" -> <<"choose", "validate_moves">>
      [] call.pc = "check" /\ call.op = "select" -> <<"choose", "validate_moves", "check">>
      [] call.pc = "get_moves" /\ call.king # 0 /\ call.op = "select" ->
             <<"choose", "validate_moves", "check">> \o GetMovesFrames
      [] call.pc = "update" -> <<"choose", "make_move">>
      [] call.pc = "check" /\ call.op = "move" ->
             <<"choose", "make_move", "update_board", "check">>
      [] call.pc = "get_moves" /\ call.king # 0 /\ call.op = "move" ->
             <<"choose", "make_move", "update_board", "check">> \o GetMovesFrames

\* How many frames of the function are on the stack.
Active(name) == Cardinality({i \in 1 .. Len(Frames) : Frames[i] = name})

\* King.check and validate_moves are on the stack at most once, and under
\* a running King.check there is one get_moves, of a piece of the other
\* team, with nothing but Piece.move (and King.castle) above it.
NoReentry ==
    /\ Active("check") <= 1
    /\ Active("validate_moves") <= 1
    /\ Active("get_moves") <= 1
    /\ (call.pc = "get_moves" /\ call.king # 0) =>
           call.grid.pieces[call.who].team # call.grid.pieces[Kings[call.king]].team

\* Every square a walk has passed is on the board and empty, and the stack
\* of Piece.move is no higher than the board is wide plus the frame that
\* finds the edge.
WalkInside ==
    /\ call.depth <= 8
    /\ \A i \in 1 .. call.depth - 1 :
           LET row == call.frame.row - i * call.frame.vert
               col == call.frame.col - i * call.frame.horiz
           IN  /\ row \in RowRange
               /\ col \in ColRange
               /\ call.grid.board[row][col] = None

\* A frame of Piece.move that stands off the board or on an occupied square
\* calls nothing.
WalkStops ==
    call'.depth > call.depth =>
        \/ call.depth = 0
        \/ /\ call.frame.row \in RowRange
           /\ call.frame.col \in ColRange
           /\ call.grid.board[call.frame.row][call.frame.col] = None

\* validate_moves begins a probe for a candidate it has not probed, and
\* when its loop ends it has probed every candidate but the castles.
ProbedOnce ==
    (call.pc = "validate" /\ call'.pc = "check") =>
        /\ call.run.next \notin call.probed
        /\ call'.probed = call.probed \cup {call.run.next}

EachProbed ==
    (call.pc = "validate" /\ call.run.next > Len(call.moves)) =>
        call.probed = {i \in 1 .. Len(call.moves) : ~call.moves[i].castle}

\* C30: every Game.choose call terminates: each sliding walk in Piece.move
\* ends at the board edge or the first occupied square, King.check
\* evaluates only raw enemy moves (which include the enemy king's castle
\* candidates) and never re-enters check detection or the legality filter,
\* and Board.validate_moves probes each candidate once.
C30_ChooseTerminates ==
    /\ (call.pc # "idle") ~> (call.pc = "idle")
    /\ [](NoReentry /\ WalkInside /\ EachProbed)
    /\ [][WalkStops /\ ProbedOnce]_vars

\* In the second or a later probe of validate_moves, King.check reads the
\* moves of the enemy king, whose King.castle walks along its rank.
C30_Witness ==
    /\ call.op = "select"
    /\ call.pc = "get_moves"
    /\ call.king # 0
    /\ call.run.next > 1
    /\ call.grid.pieces[call.who].type = "KING"
    /\ call.k > Len(KingSteps)
    /\ call.depth > 1

====
